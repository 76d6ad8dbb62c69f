---------------------------- MODULE CommandsProofs ----------------------------
(***************************************************************************)
(* Theorems about Commands: for certificate files of any length, whatever  *)
(* the certificates in them say; for captures of any number of calls and   *)
(* messages; and for every configuration a parser can return.              *)
(***************************************************************************)
EXTENDS Commands, PipelineProofs, SequenceTheorems, WellFoundedInduction

(* The walks over a certificate file. *)

\* Why the second walk ended where it did.
EndInv ==
  /\ pass \in {"judge", "judged"} <=> ending # "none"
  /\ ending = "root" => SelfSigned(cur)
  /\ ending = "badRoot" => SelfIssued(cur) /\ ~IssuedBy(cur, cur)
  /\ ending = "badSignature" => ~SelfIssued(cur) /\ Signers(cur) = {}
  /\ ending = "noRoot" => ~SelfIssued(cur) /\ DeadEnd(cur)

\* The places it came through: signatures lead to each of them from the leaf,
\* and on from all but the last.
Visited(V) ==
  /\ V \subseteq Reached /\ 1 \in V /\ \E i \in V : bundle[i] = cur
  /\ \A i \in V : \/ bundle[i] = cur
                  \/ ~SelfIssued(bundle[i]) /\ \E j \in V : IssuedBy(bundle[i], bundle[j])
  /\ \A name \in seen : \E j \in V : bundle[j].subject = name
VisitedInv == pass \in {"verify", "judge", "judged"} => \E V : Visited(V)

\* The first walk leaves a trail, along which the second one goes as far as it
\* finds signatures: where both are on a root, the first one ended there.
Over(p)   == SelfIssued(p[1]) \/ Candidates(p[1]) = {} \/ p[1].issuer \in p[2]
Onward(p) == <<BestIssuer(p[1]), p[2] \cup {p[1].issuer}>>
Trail(H)  ==
  /\ <<bundle[1], {}>> \in H
  /\ pass \in {"complete", "verify"} => <<cur, seen>> \in H
  /\ pass = "complete" => \A p \in H : p = <<cur, seen>> \/ (~Over(p) /\ Onward(p) \in H)
  /\ pass # "complete" => \A p \in H : IF Over(p) THEN SelfIssued(p[1]) = complete
                                                  ELSE Onward(p) \in H
TrailInv == /\ pass # "closed" => \E H : Trail(H)
            /\ ending \in {"root", "badRoot"} => complete

ChainInv == ChainTypeOK /\ EndInv /\ VisitedInv /\ TrailInv

\* What FirstOf takes stands at one of the places it was given.
LEMMA FirstOfIsOne ==
  ASSUME ChainTypeOK, pass # "closed",
         NEW places \in SUBSET DOMAIN bundle, places # {}
  PROVE  \E i \in places : FirstOf(places) = bundle[i]
<1>1. places \subseteq Nat
  BY DEF ChainTypeOK
<1>2. \E i \in places : \A j \in places : i <= j
  BY <1>1, FirstPlace
<1> QED
  BY <1>2 DEF FirstOf

\* The leaf is reached, and what signed a certificate that is reached.
LEMMA ReachedCloses ==
  ASSUME ChainTypeOK, pass # "closed"
  PROVE  /\ 1 \in Reached
         /\ \A i \in Reached, j \in DOMAIN bundle :
              IssuedBy(bundle[i], bundle[j]) => j \in Reached
<1>1. 1 \in DOMAIN bundle
  BY DEF ChainTypeOK
<1>2. 1 \in Reached
  BY <1>1 DEF Reached, Climbs, Climbable
<1>3. ASSUME NEW i \in Reached, NEW j \in DOMAIN bundle, IssuedBy(bundle[i], bundle[j])
      PROVE  j \in Reached
  BY <1>3 DEF Reached, Climbs, Climbable
<1> QED
  BY <1>2, <1>3

\* Reached, and what the walks look for, depends on the file alone.
LEMMA ReachedStays == bundle' = bundle => Reached' = Reached
BY DEF Reached, Climbs, Climbable, IssuedBy
LEMMA IssuersStay ==
  ASSUME bundle' = bundle
  PROVE  \A p : Over(p)' = Over(p) /\ Onward(p)' = Onward(p)
BY DEF Over, Onward, SelfIssued, Candidates, BestIssuer, Signers, IssuedBy, FirstOf

LEMMA InitChain == NothingOpen => ChainInv
BY DEF NothingOpen, ChainInv, ChainTypeOK, EndInv, VisitedInv, TrailInv, Passes, Endings

LEMMA StepTypes ==
  ASSUME ChainTypeOK, ChainStep
  PROVE  ChainTypeOK'
<1> USE DEF ChainTypeOK, Passes, Endings
<1>1. ASSUME NEW b \in Seq(Cert) \ {<< >>}, Open(b) PROVE ChainTypeOK'
  <2>1. 1 \in DOMAIN b /\ Len(b) > 0
    OBVIOUS
  <2> QED
    BY <1>1, <2>1 DEF Open
<1>2. CASE CompleteEnds
  <2>1. 1 \in DOMAIN bundle
    BY <1>2 DEF CompleteEnds
  <2> QED
    BY <1>2, <2>1 DEF CompleteEnds, SelfIssued
<1>3. CASE CompleteClimbs
  <2>1. Candidates(cur) # {} /\ Candidates(cur) \subseteq DOMAIN bundle
        /\ Signers(cur) \subseteq DOMAIN bundle
    BY <1>3 DEF CompleteClimbs, DeadEnd, Candidates, Signers
  <2>2. PICK i \in DOMAIN bundle : BestIssuer(cur) = bundle[i]
    BY <1>3, <2>1, FirstOfIsOne DEF CompleteClimbs, BestIssuer
  <2> QED
    BY <1>3, <2>2 DEF CompleteClimbs, Climb
<1>4. CASE RootReached \/ IssuerAbsent \/ NoneSigned
  BY <1>4 DEF RootReached, IssuerAbsent, NoneSigned, Stops
<1>5. CASE VerifyClimbs
  <2>1. Signers(cur) # {} /\ Signers(cur) \subseteq DOMAIN bundle
    BY <1>5 DEF VerifyClimbs, Signers, Candidates
  <2>2. PICK i \in DOMAIN bundle : FirstOf(Signers(cur)) = bundle[i]
    BY <1>5, <2>1, FirstOfIsOne DEF VerifyClimbs
  <2> QED
    BY <1>5, <2>2 DEF VerifyClimbs, Climb
<1>6. CASE Judge
  BY <1>6 DEF Judge
<1> QED
  BY <1>1, <1>2, <1>3, <1>4, <1>5, <1>6 DEF ChainStep, WalkStep

LEMMA StepEnds ==
  ASSUME ChainInv, ChainStep
  PROVE  EndInv'
<1> USE DEF ChainInv, EndInv, SelfSigned, SelfIssued, IssuedBy
<1>1. ASSUME NEW b \in Seq(Cert) \ {<< >>}, Open(b) PROVE EndInv'
  BY <1>1 DEF Open
<1>2. CASE CompleteEnds \/ CompleteClimbs \/ VerifyClimbs
  BY <1>2 DEF CompleteEnds, CompleteClimbs, VerifyClimbs, Climb
<1>3. CASE RootReached
  BY <1>3 DEF RootReached, Stops
<1>4. CASE IssuerAbsent
  BY <1>4 DEF IssuerAbsent, Stops, DeadEnd, Candidates
<1>5. CASE NoneSigned
  BY <1>5 DEF NoneSigned, Stops, Signers, Candidates
<1>6. CASE Judge
  BY <1>6 DEF Judge, DeadEnd, Signers, Candidates
<1> QED
  BY <1>1, <1>2, <1>3, <1>4, <1>5, <1>6 DEF ChainStep, WalkStep

LEMMA StepVisits ==
  ASSUME ChainInv, ChainStep
  PROVE  VisitedInv'
<1> USE DEF ChainInv, VisitedInv
<1>1. ASSUME NEW b \in Seq(Cert) \ {<< >>}, Open(b) PROVE VisitedInv'
  BY <1>1 DEF Open
<1>2. CASE CompleteEnds
  <2>1. 1 \in Reached /\ Reached' = Reached
    BY <1>2, ReachedCloses, ReachedStays DEF CompleteEnds
  <2>2. Visited({1})'
    BY <1>2, <2>1 DEF CompleteEnds, Visited
  <2> QED
    BY <2>2
<1>3. CASE CompleteClimbs
  BY <1>3 DEF CompleteClimbs, Climb
<1>4. CASE RootReached \/ IssuerAbsent \/ NoneSigned \/ Judge
  <2>1. /\ bundle' = bundle /\ cur' = cur /\ seen' = seen
        /\ pass \in {"verify", "judge"} /\ Reached' = Reached
    BY <1>4, ReachedStays DEF RootReached, IssuerAbsent, NoneSigned, Judge, Stops
  <2>2. PICK V : Visited(V)
    BY <2>1
  <2>3. Visited(V)'
    BY <2>1, <2>2 DEF Visited, SelfIssued, IssuedBy
  <2> QED
    BY <2>3
<1>5. CASE VerifyClimbs
  <2>1. Signers(cur) # {} /\ Signers(cur) \subseteq DOMAIN bundle
    BY <1>5 DEF VerifyClimbs, Signers, Candidates
  <2>2. PICK n \in Signers(cur) : FirstOf(Signers(cur)) = bundle[n]
    BY <1>5, <2>1, FirstOfIsOne DEF VerifyClimbs
  <2>3. PICK V : Visited(V)
    BY <1>5 DEF VerifyClimbs
  <2>4. IssuedBy(cur, bundle[n]) /\ n \in DOMAIN bundle
    BY <2>1 DEF Signers
  <2>5. n \in Reached /\ Reached' = Reached
    BY <1>5, <2>3, <2>4, ReachedCloses, ReachedStays DEF VerifyClimbs, Climb, Visited
  <2>6. /\ bundle' = bundle /\ cur' = bundle[n] /\ seen' = seen \cup {cur.issuer}
        /\ ~SelfIssued(cur)
    BY <1>5, <2>2 DEF VerifyClimbs, Climb
  <2>7. Visited(V \cup {n})'
    BY <2>3, <2>4, <2>5, <2>6 DEF Visited, SelfIssued, IssuedBy
  <2> QED
    BY <2>7
<1> QED
  BY <1>1, <1>2, <1>3, <1>4, <1>5 DEF ChainStep, WalkStep

LEMMA StepTrails ==
  ASSUME ChainInv, ChainStep
  PROVE  TrailInv'
<1> USE DEF ChainInv, TrailInv
<1>1. ASSUME NEW b \in Seq(Cert) \ {<< >>}, Open(b) PROVE TrailInv'
  <2>1. Trail({<<b[1], {}>>})'
    BY <1>1 DEF Open, Trail
  <2> QED
    BY <1>1, <2>1 DEF Open, EndInv
<1>2. CASE CompleteEnds
  <2>1. PICK H : Trail(H)
    BY <1>2 DEF CompleteEnds
  <2>2. Over(<<cur, seen>>) /\ complete' = SelfIssued(cur)
    BY <1>2 DEF CompleteEnds, Over, DeadEnd
  <2>3. Trail(H)'
    BY <1>2, <2>1, <2>2, IssuersStay DEF CompleteEnds, Trail, SelfIssued
  <2> QED
    BY <1>2, <2>3 DEF CompleteEnds, EndInv
<1>3. CASE CompleteClimbs
  <2>1. PICK H : Trail(H)
    BY <1>3 DEF CompleteClimbs
  <2>2. ~Over(<<cur, seen>>) /\ <<cur, seen>>' = Onward(<<cur, seen>>)
    BY <1>3 DEF CompleteClimbs, Climb, Over, Onward, DeadEnd
  <2>3. PICK next : next = Onward(<<cur, seen>>)
    OBVIOUS
  <2>4. Trail(H \cup {next})'
    BY <1>3, <2>1, <2>2, <2>3, IssuersStay DEF CompleteClimbs, Climb, Trail
  <2> QED
    BY <1>3, <2>4 DEF CompleteClimbs, Climb, EndInv
<1>4. CASE RootReached
  <2>1. PICK H : Trail(H)
    BY <1>4 DEF RootReached, Stops
  <2>2. SelfIssued(cur) /\ Over(<<cur, seen>>) /\ <<cur, seen>> \in H
    BY <1>4, <2>1 DEF RootReached, Stops, Over, Trail
  <2>3. complete = TRUE
    BY <1>4, <2>1, <2>2 DEF RootReached, Stops, Trail, SelfIssued
  <2>4. Trail(H)'
    BY <1>4, <2>1, IssuersStay DEF RootReached, Stops, Trail, SelfIssued
  <2> QED
    BY <1>4, <2>3, <2>4 DEF RootReached, Stops
<1>5. CASE IssuerAbsent \/ NoneSigned \/ Judge
  <2>1. PICK H : Trail(H)
    BY <1>5 DEF IssuerAbsent, NoneSigned, Judge, Stops
  <2>2. Trail(H)'
    BY <1>5, <2>1, IssuersStay DEF IssuerAbsent, NoneSigned, Judge, Stops, Trail, SelfIssued
  <2> QED
    BY <1>5, <2>2 DEF IssuerAbsent, NoneSigned, Judge, Stops
<1>6. CASE VerifyClimbs
  <2>1. PICK H : Trail(H)
    BY <1>6 DEF VerifyClimbs
  <2>2. ~Over(<<cur, seen>>) /\ <<cur, seen>>' = Onward(<<cur, seen>>)
    BY <1>6 DEF VerifyClimbs, Climb, Over, Onward, DeadEnd, BestIssuer
  <2>3. Trail(H)'
    BY <1>6, <2>1, <2>2, IssuersStay DEF VerifyClimbs, Climb, Trail, SelfIssued
  <2> QED
    BY <1>6, <2>3 DEF VerifyClimbs, Climb, EndInv
<1> QED
  BY <1>1, <1>2, <1>3, <1>4, <1>5, <1>6 DEF ChainStep, WalkStep

LEMMA StepChain == ChainInv /\ [ChainStep]_chainVars => ChainInv'
<1>1. ASSUME ChainInv, ChainStep PROVE ChainInv'
  BY <1>1, StepTypes, StepEnds, StepVisits, StepTrails DEF ChainInv
<1>2. ASSUME ChainInv, UNCHANGED chainVars PROVE ChainInv'
  <2>1. /\ bundle' = bundle /\ pass' = pass /\ cur' = cur /\ seen' = seen
        /\ complete' = complete /\ ending' = ending /\ Reached' = Reached
    BY <1>2, ReachedStays DEF chainVars
  <2>2. ChainTypeOK'
    BY <1>2, <2>1 DEF ChainInv, ChainTypeOK
  <2>3. EndInv'
    BY <1>2, <2>1 DEF ChainInv, EndInv, SelfSigned, SelfIssued, IssuedBy, DeadEnd, Signers, Candidates
  <2>4. \A V : Visited(V)' = Visited(V)
    BY <2>1 DEF Visited, SelfIssued, IssuedBy
  <2>5. \A H : Trail(H)' = Trail(H)
    BY <2>1, IssuersStay DEF Trail, SelfIssued
  <2> QED
    BY <1>2, <2>1, <2>2, <2>3, <2>4, <2>5 DEF ChainInv, VisitedInv, TrailInv
<1> QED
  BY <1>1, <1>2

\* The strengthened invariant holds throughout (_chain_complete, verify_chain).
THEOREM ChainInvariant == ChainSpec => []ChainInv
BY InitChain, StepChain, PTL DEF ChainSpec

\* The walks stay inside the file (cert_inspect.py).
THEOREM ChainTyped == ChainSpec => []ChainTypeOK
<1>1. ChainInv => ChainTypeOK
  BY DEF ChainInv
<1> QED
  BY <1>1, ChainInvariant, PTL

\* A chain is called anchored only if signatures that verify lead from the leaf
\* to a root that signed itself (verify_chain), however the file is ordered.
THEOREM AnchorIsProven == ChainSpec => []AnchorProven
<1>1. ChainInv => AnchorProven
  BY DEF ChainInv, EndInv, VisitedInv, Visited, AnchorProven
<1> QED
  BY <1>1, ChainInvariant, PTL

\* No issuer is looked for twice in one walk, so that a cycle of authorities
\* cannot keep _chain_complete or verify_chain going.
THEOREM WalkEnds == ChainSpec => WalkProgress
<1>1. ASSUME ChainInv, [ChainStep]_chainVars
      PROVE  [pass' = pass => seen \subseteq seen' /\ seen # seen']_chainVars
  <2>1. ASSUME NEW b \in Seq(Cert) \ {<< >>}, Open(b) PROVE pass' # pass
    BY <2>1 DEF Open
  <2>2. ASSUME CompleteEnds \/ RootReached \/ IssuerAbsent \/ NoneSigned \/ Judge
        PROVE  pass' # pass
    BY <2>2 DEF CompleteEnds, RootReached, IssuerAbsent, NoneSigned, Judge, Stops
  <2>3. ASSUME CompleteClimbs \/ VerifyClimbs PROVE seen \subseteq seen' /\ seen # seen'
    BY <2>3 DEF CompleteClimbs, VerifyClimbs, Climb, DeadEnd
  <2> QED
    BY <1>1, <2>1, <2>2, <2>3 DEF ChainStep, WalkStep
<1> QED
  BY <1>1, ChainInvariant, PTL DEF ChainSpec, WalkProgress

------------------------------------------------------------------------------
(* The explain command. *)

UpStates == {"up", "changing", "leaving", "ended"}
Dialogs  == {"idle", "calling", "ringing", "challenged", "cancelling", "cancelled", "cleared",
             "refused", "pinging", "pinged"} \cup UpStates
Final(m)    == m.cseq = "INVITE" /\ m.status >= 200
Accepted(m) == m.cseq = "INVITE" /\ m.status = 200
Pong(m)     == m.cseq = "OPTIONS" /\ m.status = 200

\* What is captured of a call fits where the call is.
Fits(m, d) ==
  /\ d # "idle"
  /\ Final(m) => \/ m.status = 200 /\ d \in UpStates
                 \/ m.status = 407
                 \/ m.status \in {404, 488, 503} /\ d = "refused"
                 \/ m.status \in {486, 487} /\ d = "cleared"
                 \/ m.status = 491 /\ d \in UpStates
  /\ m.media # "none" => Accepted(m) /\ m.media \in {"public", "private"}
  /\ m.method = "OPTIONS" \/ m.cseq = "OPTIONS" => d \in {"pinging", "pinged"}
  /\ m.method = "INVITE" => d \notin {"pinging", "pinged"}
  /\ Pong(m) => d = "pinged"
  /\ m.leaked => m.method = "INVITE"

\* ... and in a complete capture, what a call has come to was heard.
Heard(c) ==
  LET d == dialog[c] IN
  /\ d \in UpStates => \E m \in Of(c) : Accepted(m)
  /\ d \in {"refused", "cleared", "challenged"} => \E m \in Of(c) : Final(m)
  /\ d = "pinged" => \E m \in Of(c) : Pong(m)
  /\ d # "idle" => \E m \in Of(c) : m.method \in {"INVITE", "OPTIONS"}
  /\ \A m \in Of(c) : m.cseq = "INVITE" /\ m.status = 491 =>
       \E n \in Of(c) : Accepted(n) /\ n.ts < m.ts

\* Only the answer that takes a call up can carry a private address.
PrivateFirst(c) ==
  \A m, n \in Of(c) : m.media = "private" /\ n.media # "none" => m.ts <= n.ts

Flowing(c) ==
  /\ rtp[<<c, "out">>] \in {0, MinRtp}
  /\ rtp[<<c, "out">>] = 0 => rtp[<<c, "in">>] <= 1
  /\ rtp[<<c, "out">>] # 0 => WasUp(c)

TraceTypeOK ==
  /\ dialog \in [Calls -> Dialogs] /\ sent \in Nat
  /\ IsFiniteSet(trace) /\ \A m, n \in trace : m.ts = n.ts => m = n
  /\ \A m \in trace : /\ m.call \in Calls /\ m.ts \in Nat /\ m.ts < sent /\ m.status \in Nat
  /\ rtp \in [Calls \X {"in", "out"} -> Nat]
  /\ tlsSeen \in {"none", "records", "alert"}

TraceInv ==
  /\ TraceTypeOK
  /\ Cardinality(trace) <= sent
  /\ \A m \in trace : Fits(m, dialog[m.call])
  /\ \A c \in Calls : PrivateFirst(c) /\ Flowing(c)
  /\ NothingLost => \A c \in Calls : Heard(c)
  /\ Explained => told = Explanation

\* The moves of a call.
LEMMA MoveFacts ==
  ASSUME NEW move \in Moves
  PROVE  LET from == move[1]  said == move[2]  to == move[3] IN
         /\ from \in Dialogs /\ to \in Dialogs /\ to # "idle"
         /\ from \in UpStates => to \in UpStates
         /\ from \notin {"refused", "cleared", "ended", "pinged"}
         /\ to \in {"pinging", "pinged"} <=> from \in {"idle", "pinging"} /\ said.method # "INVITE"
         /\ from = "pinging" => to = "pinged"
         /\ from \in UpStates \/ to \notin UpStates \/ Accepted(said)
         /\ to \in {"refused", "cleared", "challenged"} => Final(said)
         /\ to = "pinged" => Pong(said)
         /\ from = "idle" => said.method \in {"INVITE", "OPTIONS"}
BY DEF Moves, Asks, Replies, Answers, Final, Accepted, Pong, UpStates, Dialogs
LEMMA SaidFacts ==
  ASSUME NEW move \in Moves
  PROVE  LET from == move[1]  said == move[2]  to == move[3] IN
         /\ said.status \in Nat
         /\ Final(said) => \/ said.status = 200 /\ to \in UpStates
                           \/ said.status = 407
                           \/ said.status \in {404, 488, 503} /\ to = "refused"
                           \/ said.status \in {486, 487} /\ to = "cleared"
                           \/ said.status = 491 /\ from = "changing"
         /\ said.media # "none" => Accepted(said) /\ said.media \in {"public", "private"}
         /\ said.media = "private" => from \notin UpStates
         /\ said.method = "OPTIONS" \/ said.cseq = "OPTIONS" => to \in {"pinging", "pinged"}
         /\ said.method = "INVITE" => to \notin {"pinging", "pinged"}
         /\ Pong(said) => to = "pinged"
BY DEF Moves, Asks, Replies, Answers, Final, Accepted, Pong, UpStates

\* What was captured of a call still fits when the call has moved on.
LEMMA FitsMoves ==
  ASSUME NEW move \in Moves, NEW m, Fits(m, move[1]) PROVE Fits(m, move[3])
<1>1. move[1] \notin {"refused", "cleared", "ended", "pinged", "idle"}
  BY MoveFacts DEF Fits
<1> QED
  BY <1>1, MoveFacts DEF Fits, Pong, Final, Accepted

LEMMA SendKeeps ==
  ASSUME TraceInv, NEW c \in Calls, Send(c), told = Untold, told' = told
  PROVE  TraceInv'
<1>1. PICK move \in Moves, leaked \in BOOLEAN :
        /\ dialog[c] = move[1] /\ dialog' = [dialog EXCEPT ![c] = move[3]]
        /\ leaked => move[2] = Asks("INVITE")
        /\ \/ trace' = trace \cup {Message(c, leaked, move[2])}
           \/ sent - Cardinality(trace) < MaxLost /\ trace' = trace
  BY DEF Send
<1> DEFINE new == Message(c, leaked, move[2])
<1>2. /\ new.call = c /\ new.ts = sent /\ new.leaked = leaked /\ new.method = move[2].method
      /\ new.status = move[2].status /\ new.cseq = move[2].cseq /\ new.media = move[2].media
  BY DEF Message
<1>3. sent' = sent + 1 /\ rtp' = rtp /\ tlsSeen' = tlsSeen /\ sent \in Nat
  BY DEF Send, TraceInv, TraceTypeOK
<1>4. new \notin trace
  BY <1>2, <1>3 DEF TraceInv, TraceTypeOK
<1>5. /\ dialog'[c] = move[3] /\ \A d \in Calls : d # c => dialog'[d] = dialog[d]
      /\ dialog' \in [Calls -> Dialogs]
  BY <1>1, MoveFacts DEF TraceInv, TraceTypeOK
<1>6. leaked => move[2].method = "INVITE"
  BY <1>1 DEF Asks
<1>7. /\ trace' \subseteq trace \cup {new} /\ trace \subseteq trace'
      /\ IsFiniteSet(trace') /\ Cardinality(trace') <= sent'
      /\ NothingLost' => NothingLost /\ new \in trace'
  <2>1. IsFiniteSet(trace) /\ Cardinality(trace) \in Nat /\ Cardinality(trace) <= sent
    BY FS_CardinalityType DEF TraceInv, TraceTypeOK
  <2>2. IsFiniteSet(trace \cup {new}) /\ Cardinality(trace \cup {new}) = Cardinality(trace) + 1
    BY <1>4, <2>1, FS_AddElement
  <2>3. CASE trace' = trace \cup {new}
    BY <1>3, <2>1, <2>2, <2>3 DEF NothingLost
  <2>4. CASE trace' = trace
    BY <1>3, <2>1, <2>4 DEF NothingLost
  <2> QED
    BY <1>1, <2>3, <2>4
<1> HIDE DEF new
<1>8. TraceTypeOK'
  <2>1. \A m \in trace' : /\ m.call \in Calls /\ m.ts \in Nat /\ m.ts < sent' /\ m.status \in Nat
    BY <1>2, <1>3, <1>7, SaidFacts DEF TraceInv, TraceTypeOK
  <2>2. \A m, n \in trace' : m.ts = n.ts => m = n
    BY <1>2, <1>3, <1>7 DEF TraceInv, TraceTypeOK
  <2> QED
    BY <1>3, <1>5, <1>7, <2>1, <2>2 DEF TraceInv, TraceTypeOK
<1>9. Fits(new, dialog'[c])
  <2>1. move[3] # "idle" /\ (move[1] = "changing" => move[3] \in UpStates)
    BY MoveFacts DEF UpStates
  <2> QED
    BY <1>2, <1>5, <1>6, <2>1, SaidFacts DEF Fits, Final, Accepted, Pong
<1>10. ASSUME NEW m \in trace' PROVE Fits(m, dialog'[m.call])
  <2>1. CASE m = new
    BY <1>2, <1>9, <2>1
  <2>2. CASE m \in trace
    <3>1. m.call \in Calls /\ Fits(m, dialog[m.call])
      BY <2>2 DEF TraceInv, TraceTypeOK
    <3> QED
      BY <1>1, <1>5, <3>1, FitsMoves
  <2> QED
    BY <1>7, <2>1, <2>2
<1>11. ASSUME NEW d \in Calls PROVE PrivateFirst(d)'
  <2> SUFFICES ASSUME NEW m \in trace', m.call = d, m.media = "private",
                      NEW n \in trace', n.call = d, n.media # "none"
               PROVE  m.ts <= n.ts
    BY DEF PrivateFirst, Of
  <2>0. m.ts \in Nat /\ n.ts \in Nat /\ m.ts <= sent /\ n.ts <= sent
    BY <1>3, <1>8 DEF TraceTypeOK
  <2>1. CASE m \in trace /\ n \in trace
    BY <2>1 DEF TraceInv, PrivateFirst, Of
  <2>2. CASE n = new
    BY <1>2, <2>0, <2>2
  <2>3. CASE m = new /\ n \in trace
    <3>1. Fits(n, move[1]) /\ move[1] \notin UpStates
      BY <1>1, <1>2, <2>3, SaidFacts DEF TraceInv
    <3> QED
      BY <3>1 DEF Fits, Accepted, Final
  <2> QED
    BY <1>7, <2>1, <2>2, <2>3
<1>12. ASSUME NEW d \in Calls PROVE Flowing(d)'
  <2>1. Flowing(d)
    BY DEF TraceInv
  <2>2. WasUp(d) => WasUp(d)'
    BY <1>1, <1>5, MoveFacts DEF WasUp, UpStates
  <2> QED
    BY <1>3, <2>1, <2>2 DEF Flowing
<1>13. ASSUME NothingLost', NEW d \in Calls PROVE Heard(d)'
  <2>1. NothingLost /\ Heard(d) /\ Heard(c) /\ new \in trace'
    BY <1>7, <1>13 DEF TraceInv
  <2>2. Of(d) \subseteq Of(d)'
    BY <1>7 DEF Of
  <2>3. CASE d # c
    <3>1. Of(d)' = Of(d) /\ dialog'[d] = dialog[d]
      BY <1>2, <1>5, <1>7, <2>3 DEF Of
    <3> QED
      BY <2>1, <3>1 DEF Heard
  <2>4. CASE d = c
    <3>1. new \in Of(c)' /\ \A m \in Of(c)' : m \in Of(c) \/ m = new
      BY <1>2, <1>7, <2>1 DEF Of
    <3>2. \A m \in Of(c) : m.ts \in Nat /\ m.ts < sent
      BY DEF Of, TraceInv, TraceTypeOK
    <3>3. dialog'[c] \in UpStates => \E m \in Of(c)' : Accepted(m)
      <4>1. dialog[c] \in UpStates => \E m \in Of(c) : Accepted(m)
        BY <2>1 DEF Heard
      <4>2. CASE Accepted(move[2])
        BY <1>2, <3>1, <4>2 DEF Accepted
      <4> QED
        BY <1>1, <1>5, <2>2, <2>4, <4>1, <4>2, MoveFacts
    <3>4. dialog'[c] \in {"refused", "cleared", "challenged"} => \E m \in Of(c)' : Final(m)
      BY <1>2, <1>5, <3>1, MoveFacts DEF Final
    <3>5. dialog'[c] = "pinged" => \E m \in Of(c)' : Pong(m)
      <4>1. dialog'[c] = "pinged" => Pong(move[2])
        BY <1>5, MoveFacts
      <4> QED
        BY <1>2, <3>1, <4>1 DEF Pong
    <3>6. \E m \in Of(c)' : m.method \in {"INVITE", "OPTIONS"}
      <4>1. CASE dialog[c] = "idle"
        BY <1>1, <1>2, <3>1, <4>1, MoveFacts
      <4>2. CASE dialog[c] # "idle"
        BY <2>1, <2>2, <2>4, <4>2 DEF Heard
      <4> QED
        BY <4>1, <4>2
    <3>7. ASSUME NEW m \in Of(c)', m.cseq = "INVITE", m.status = 491
          PROVE  \E n \in Of(c)' : Accepted(n) /\ n.ts < m.ts
      <4>1. CASE m \in Of(c)
        BY <2>1, <2>2, <2>4, <3>7, <4>1 DEF Heard
      <4>2. CASE m = new
        <5>1. move[1] = "changing"
          BY <1>2, <3>7, <4>2, SaidFacts DEF Final
        <5>2. PICK n \in Of(c) : Accepted(n)
          BY <1>1, <2>1, <5>1 DEF Heard, UpStates
        <5> QED
          BY <1>2, <2>2, <2>4, <3>2, <4>2, <5>2
      <4> QED
        BY <3>1, <4>1, <4>2
    <3> QED
      BY <2>4, <3>3, <3>4, <3>5, <3>6, <3>7 DEF Heard
  <2> QED
    BY <2>3, <2>4
<1> QED
  BY <1>7, <1>8, <1>10, <1>11, <1>12, <1>13 DEF TraceInv, Explained

LEMMA InitTrace == NoCapture => TraceInv
<1> SUFFICES ASSUME NoCapture PROVE TraceInv
  OBVIOUS
<1>1. IsFiniteSet(trace) /\ Cardinality(trace) = 0
  BY FS_EmptySet DEF NoCapture
<1>2. TraceTypeOK
  BY <1>1 DEF NoCapture, TraceTypeOK, Dialogs
<1>3. \A c \in Calls : Of(c) = {}
  BY DEF NoCapture, Of
<1>4. \A c \in Calls : Flowing(c)
  BY DEF NoCapture, Flowing
<1>5. \A c \in Calls : Heard(c) /\ PrivateFirst(c)
  BY <1>3 DEF NoCapture, Heard, PrivateFirst, UpStates
<1> QED
  BY <1>1, <1>2, <1>4, <1>5 DEF NoCapture, TraceInv, Explained

\* The media packets, and the handshakes on port 5061.
LEMMA MediaKeeps ==
  ASSUME TraceInv, UNCHANGED <<dialog, trace, sent>>, told = Untold, told' = told,
         (\E c \in Calls : Stray(c) \/ Media(c)) \/ Handshaken
  PROVE  TraceInv'
<1>1. TraceTypeOK' /\ \A d \in Calls : Flowing(d)'
  <2>0. \A d \in Calls : <<d, "in">> \in DOMAIN rtp /\ <<d, "out">> \in DOMAIN rtp /\ WasUp(d)' = WasUp(d)
    BY DEF TraceInv, TraceTypeOK, WasUp
  <2>00. rtp \in [Calls \X {"in", "out"} -> Nat] /\ \A d \in Calls : Flowing(d)
    BY DEF TraceInv, TraceTypeOK
  <2>1. ASSUME NEW c \in Calls, Stray(c) PROVE TraceTypeOK' /\ \A d \in Calls : Flowing(d)'
    <3>1. rtp' = [rtp EXCEPT ![<<c, "in">>] = 1] /\ tlsSeen' = tlsSeen
      BY <2>1 DEF Stray
    <3>2. rtp' \in [Calls \X {"in", "out"} -> Nat]
      BY <2>00, <3>1
    <3>3. ASSUME NEW d \in Calls PROVE Flowing(d)'
      <4>1. rtp'[<<d, "out">>] = rtp[<<d, "out">>] /\ rtp'[<<d, "in">>] \in {1, rtp[<<d, "in">>]}
        BY <2>0, <2>00, <3>1
      <4> QED
        BY <2>0, <2>00, <4>1 DEF Flowing
    <3> QED
      BY <3>1, <3>2, <3>3 DEF TraceInv, TraceTypeOK
  <2>2. ASSUME NEW c \in Calls, Media(c) PROVE TraceTypeOK' /\ \A d \in Calls : Flowing(d)'
    <3>1. PICK back \in {0, MinRtp} :
            rtp' = [rtp EXCEPT ![<<c, "out">>] = MinRtp, ![<<c, "in">>] = @ + back]
      BY <2>2 DEF Media
    <3>2. tlsSeen' = tlsSeen /\ WasUp(c) /\ back \in Nat
      BY <2>2, RtpAssumption DEF Media, WasUp
    <3>3. rtp' \in [Calls \X {"in", "out"} -> Nat]
      BY <2>00, <3>1, <3>2, RtpAssumption
    <3>4. ASSUME NEW d \in Calls PROVE Flowing(d)'
      <4>1. CASE d = c
        <5>1. rtp'[<<c, "out">>] = MinRtp
          BY <2>0, <2>00, <3>1
        <5> QED
          BY <2>0, <3>2, <4>1, <5>1, RtpAssumption DEF Flowing
      <4>2. CASE d # c
        <5>1. rtp'[<<d, "out">>] = rtp[<<d, "out">>] /\ rtp'[<<d, "in">>] = rtp[<<d, "in">>]
          BY <2>0, <2>00, <3>1, <4>2
        <5> QED
          BY <2>0, <2>00, <5>1 DEF Flowing
      <4> QED
        BY <4>1, <4>2
    <3> QED
      BY <3>2, <3>3, <3>4 DEF TraceInv, TraceTypeOK
  <2>3. CASE Handshaken
    BY <2>3 DEF Handshaken, TraceInv, TraceTypeOK, Flowing, WasUp
  <2> QED
    BY <2>1, <2>2, <2>3
<1>2. \A c \in Calls : Of(c)' = Of(c)
  BY DEF Of
<1>3. \A c \in Calls : PrivateFirst(c)' /\ (Heard(c) => Heard(c)')
  BY <1>2 DEF TraceInv, PrivateFirst, Heard
<1> QED
  BY <1>1, <1>3 DEF TraceInv, NothingLost, Explained

\* What explain says is a function of what was captured.
LEMMA SameCapture == UNCHANGED <<trace, rtp, tlsSeen>> => Explanation' = Explanation
BY DEF Explanation, SeenCalls, Diagnosis, Finals, Of, InviteFinal, Earliest, Answered, AnswerAddress,
   OneWay, OneWayFlows, Flows, IsFlow, Opposite, Found, Rejected, Cause, Agrees, FaultDomains, Domains,
   TopDomains, Leaks, Classes

LEMMA ExplainKeeps ==
  ASSUME TraceInv, UNCHANGED <<dialog, trace, sent, rtp, tlsSeen>>, told' \in {told, Explanation}
  PROVE  TraceInv'
<1>1. \A c \in Calls : Of(c)' = Of(c) /\ WasUp(c)' = WasUp(c)
  BY DEF Of, WasUp
<1>2. Explained' => told' = Explanation'
  BY SameCapture DEF TraceInv, Explained
<1>3. \A c \in Calls : PrivateFirst(c)' /\ Flowing(c)' /\ (Heard(c) => Heard(c)')
  <2> SUFFICES ASSUME NEW c \in Calls PROVE PrivateFirst(c)' /\ Flowing(c)' /\ (Heard(c) => Heard(c)')
    OBVIOUS
  <2>1. PrivateFirst(c)'
    BY <1>1 DEF TraceInv, PrivateFirst
  <2>2. Flowing(c)'
    BY <1>1 DEF TraceInv, Flowing
  <2>3. Heard(c) => Heard(c)'
    BY <1>1 DEF Heard
  <2> QED
    BY <2>1, <2>2, <2>3
<1> QED
  BY <1>2, <1>3 DEF TraceInv, TraceTypeOK, NothingLost

LEMMA TraceInvStep == TraceInv /\ [TraceStep]_traceVars => TraceInv'
<1> SUFFICES ASSUME TraceInv, [TraceStep]_traceVars PROVE TraceInv'
  OBVIOUS
<1>1. CASE UNCHANGED traceVars
  BY <1>1, ExplainKeeps DEF traceVars
<1>2. CASE told = Untold /\ \E c \in Calls : Send(c) /\ told' = told
  BY <1>2, SendKeeps
<1>3. CASE told = Untold /\ told' = told /\ ((\E c \in Calls : Stray(c) \/ Media(c)) \/ Handshaken)
  BY <1>3, MediaKeeps DEF Stray, Media, Handshaken
<1>4. CASE Explain
  BY <1>4, ExplainKeeps DEF Explain
<1> QED
  BY <1>1, <1>2, <1>3, <1>4 DEF TraceStep

THEOREM TraceInvariance == TraceSpec => []TraceInv
BY InitTrace, TraceInvStep, PTL DEF TraceSpec

LEMMA EarliestIs ==
  ASSUME TraceInv, NEW ms \in SUBSET trace, ms # {}
  PROVE  Earliest(ms) \in ms /\ \A n \in ms : Earliest(ms).ts <= n.ts
<1>1. {m.ts : m \in ms} \in SUBSET Nat /\ {m.ts : m \in ms} # {}
  BY DEF TraceInv, TraceTypeOK
<1>2. \E m \in ms : \A n \in ms : m.ts <= n.ts
  <2>1. PICK i \in {m.ts : m \in ms} : \A j \in {m.ts : m \in ms} : i <= j
    BY <1>1, FirstPlace
  <2> QED
    BY <2>1
<1> QED
  BY <1>2 DEF Earliest

\* What analyze says of a call, and what it has seen of it then.
LEMMA DiagnosisIs ==
  ASSUME TraceInv, NEW c
  PROVE  LET g == Diagnosis(c) IN
         \/ g = Answered(c) /\ InviteFinal(c) \in Of(c) /\ Accepted(InviteFinal(c))
         \/ /\ g = Rejected(InviteFinal(c).status) /\ InviteFinal(c) \in Of(c)
            /\ Final(InviteFinal(c)) /\ InviteFinal(c).status # 200
            /\ \A n \in Of(c) : Final(n) => InviteFinal(c).ts <= n.ts
         \/ /\ \A n \in Of(c) : ~Final(n)
            /\ \/ g = Found("NO_ANSWER", "B") /\ \E m \in Of(c) : m.method = "INVITE"
               \/ g = Found("OPTIONS_OK", "ok") /\ \E m \in Of(c) : Pong(m)
               \/ /\ g = Found("OPTIONS_UNANSWERED", "B")
                  /\ \E m \in Of(c) : m.method = "OPTIONS" /\ \A n \in Of(c) : ~Pong(n)
               \/ g = Found("UNKNOWN", "ok") /\ \A m \in Of(c) : m.method \notin {"INVITE", "OPTIONS"}
<1>1. Finals(c) \subseteq Of(c) /\ Of(c) \subseteq trace /\ \A m \in Of(c) : m \in Finals(c) <=> Final(m)
  BY DEF Finals, Of, Final
<1>2. CASE Finals(c) # {}
  <2>1. InviteFinal(c) \in Finals(c) /\ \A n \in Finals(c) : InviteFinal(c).ts <= n.ts
    BY <1>1, <1>2, EarliestIs DEF InviteFinal
  <2>2. InviteFinal(c) \in Of(c) /\ Final(InviteFinal(c))
    BY <1>1, <2>1
  <2>3. Diagnosis(c) = IF InviteFinal(c).status = 200 THEN Answered(c)
                       ELSE Rejected(InviteFinal(c).status)
    BY <1>2 DEF Diagnosis
  <2> QED
    BY <1>1, <2>1, <2>2, <2>3 DEF Accepted, Final
<1>3. CASE Finals(c) = {}
  <2>1. \A n \in Of(c) : ~Final(n)
    BY <1>1, <1>3
  <2>2. CASE \E m \in Of(c) : m.method = "INVITE"
    BY <1>3, <2>1, <2>2 DEF Diagnosis
  <2>3. CASE ~ \E m \in Of(c) : m.method = "INVITE"
    <3>1. CASE \E m \in Of(c) : m.method = "OPTIONS"
      <4>1. Diagnosis(c) = IF \E m \in Of(c) : m.status = 200 /\ m.cseq = "OPTIONS"
                           THEN Found("OPTIONS_OK", "ok") ELSE Found("OPTIONS_UNANSWERED", "B")
        BY <1>3, <2>3, <3>1 DEF Diagnosis
      <4> QED
        BY <2>1, <3>1, <4>1 DEF Pong
    <3>2. CASE ~ \E m \in Of(c) : m.method = "OPTIONS"
      BY <1>3, <2>1, <2>3, <3>2 DEF Diagnosis
    <3> QED
      BY <3>1, <3>2
  <2> QED
    BY <2>2, <2>3
<1> QED
  BY <1>2, <1>3

LEMMA CodesAre ==
  /\ \A code, domain : Found(code, domain).code = code /\ Found(code, domain).domain = domain
  /\ \A n : /\ Rejected(n).code = "REJECTED" /\ Rejected(n).status = n /\ Rejected(n).domain = Cause(n)
  /\ \A c : Answered(c).code \in {"CONNECTED", "ONE_WAY_AUDIO"}
BY DEF Found, Rejected, Answered

LEMMA ToldIs ==
  ASSUME TraceInv, Explained
  PROVE  /\ \A c, codes : Is(c, codes) <=> c \in SeenCalls /\ Diagnosis(c).code \in codes
         /\ \A c \in SeenCalls : told.calls[c] = Diagnosis(c)
         /\ told.shown = {class \in DOMAIN Classes : Agrees(class)}
BY DEF TraceInv, Explanation, Is

LEMMA SeenIs == TraceInv => \A c : c \in SeenCalls <=> c \in Calls /\ Of(c) # {}
BY DEF TraceInv, TraceTypeOK, SeenCalls, Of

LEMMA FitsOf == ASSUME TraceInv, NEW c, NEW m \in Of(c) PROVE Fits(m, dialog[c]) /\ c \in Calls /\ m \in trace
BY DEF TraceInv, TraceTypeOK, Of

LEMMA Connected == TraceInv => ConnectedIsAnswered
<1> SUFFICES ASSUME TraceInv, Explained, NEW c \in Calls
             PROVE  /\ Is(c, {"CONNECTED", "ONE_WAY_AUDIO"}) => WasUp(c)
                    /\ Is(c, {"OPTIONS_OK"}) => dialog[c] = "pinged"
  BY DEF ConnectedIsAnswered
<1>1. ASSUME Diagnosis(c).code \in {"CONNECTED", "ONE_WAY_AUDIO"} PROVE WasUp(c)
  <2>1. \E m \in Of(c) : Accepted(m)
    BY <1>1, DiagnosisIs, CodesAre
  <2> QED
    BY <2>1, FitsOf DEF Fits, Accepted, Final, WasUp, UpStates
<1>2. ASSUME Diagnosis(c).code = "OPTIONS_OK" PROVE dialog[c] = "pinged"
  <2>1. \E m \in Of(c) : Pong(m)
    BY <1>2, DiagnosisIs, CodesAre
  <2> QED
    BY <2>1, FitsOf DEF Fits
<1> QED
  BY <1>1, <1>2, ToldIs

\* What a complete capture says of a call that was refused, and of one that was
\* not answered.
LEMMA RejectedIs ==
  ASSUME TraceInv, NothingLost, NEW c \in Calls, Diagnosis(c).code = "REJECTED"
  PROVE  /\ Diagnosis(c) = Rejected(InviteFinal(c).status)
         /\ \/ InviteFinal(c).status = 407
            \/ InviteFinal(c).status \in {404, 488, 503} /\ dialog[c] = "refused"
            \/ InviteFinal(c).status \in {486, 487} /\ dialog[c] = "cleared"
         /\ InviteFinal(c) \in Of(c)
<1>1. /\ Diagnosis(c) = Rejected(InviteFinal(c).status) /\ InviteFinal(c) \in Of(c)
      /\ Final(InviteFinal(c)) /\ InviteFinal(c).status # 200
      /\ \A n \in Of(c) : Final(n) => InviteFinal(c).ts <= n.ts
  BY DiagnosisIs, CodesAre
<1>2. InviteFinal(c).status # 491
  <2> SUFFICES ASSUME InviteFinal(c).status = 491 PROVE FALSE
    OBVIOUS
  <2>1. PICK n \in Of(c) : Accepted(n) /\ n.ts < InviteFinal(c).ts
    BY <1>1 DEF TraceInv, Heard, Final
  <2>2. n.ts \in Nat /\ InviteFinal(c).ts \in Nat
    BY <1>1, FitsOf DEF TraceInv, TraceTypeOK
  <2> QED
    BY <1>1, <2>1, <2>2 DEF Final, Accepted
<1> QED
  BY <1>1, <1>2, FitsOf DEF Fits

LEMMA UnansweredIs ==
  ASSUME TraceInv, NothingLost, NEW c \in Calls
  PROVE  /\ Diagnosis(c).code = "NO_ANSWER" => Waiting(c) /\ dialog[c] # "challenged"
         /\ Diagnosis(c).code = "OPTIONS_UNANSWERED" => dialog[c] = "pinging"
         /\ Diagnosis(c).code # "UNKNOWN" \/ c \notin SeenCalls
<1>1. Heard(c) /\ dialog[c] \in Dialogs
  BY DEF TraceInv, TraceTypeOK
<1>2. ASSUME Diagnosis(c).code = "NO_ANSWER" PROVE Waiting(c) /\ dialog[c] # "challenged"
  <2>1. (\A n \in Of(c) : ~Final(n)) /\ \E m \in Of(c) : m.method = "INVITE"
    BY <1>2, DiagnosisIs, CodesAre
  <2>2. dialog[c] \notin {"idle", "pinging", "pinged"}
    BY <2>1, FitsOf DEF Fits
  <2>3. dialog[c] \notin UpStates \cup {"refused", "cleared", "challenged"}
    BY <1>1, <2>1 DEF Heard, Accepted, Final
  <2> QED
    BY <1>1, <2>2, <2>3 DEF Dialogs, Waiting
<1>3. ASSUME Diagnosis(c).code = "OPTIONS_UNANSWERED" PROVE dialog[c] = "pinging"
  <2>1. \E m \in Of(c) : m.method = "OPTIONS" /\ \A n \in Of(c) : ~Pong(n)
    BY <1>3, DiagnosisIs, CodesAre
  <2> QED
    BY <1>1, <2>1, FitsOf DEF Fits, Heard
<1>4. ASSUME Diagnosis(c).code = "UNKNOWN", c \in SeenCalls PROVE FALSE
  <2>1. \A m \in Of(c) : m.method \notin {"INVITE", "OPTIONS"}
    BY <1>4, DiagnosisIs, CodesAre
  <2>2. dialog[c] # "idle"
    BY <1>4, SeenIs, FitsOf DEF Fits
  <2> QED
    BY <1>1, <2>1, <2>2 DEF Heard
<1> QED
  BY <1>2, <1>3, <1>4

LEMMA FailureReal == TraceInv => FailureIsReal
<1> SUFFICES ASSUME TraceInv, Explained, NothingLost, NEW c \in Calls
             PROVE  /\ Is(c, {"REJECTED"}) => told.calls[c].status \in {401, 407} \/ dialog[c] \in {"refused", "cleared"}
                    /\ Is(c, {"NO_ANSWER"}) => Waiting(c) /\ dialog[c] # "challenged"
                    /\ Is(c, {"OPTIONS_UNANSWERED"}) => dialog[c] = "pinging"
  BY DEF FailureIsReal
<1>1. ASSUME Is(c, {"REJECTED"})
      PROVE  told.calls[c].status \in {401, 407} \/ dialog[c] \in {"refused", "cleared"}
  <2>1. Diagnosis(c).code = "REJECTED" /\ told.calls[c] = Diagnosis(c)
    BY <1>1, ToldIs
  <2> QED
    BY <2>1, RejectedIs, CodesAre
<1> QED
  BY <1>1, ToldIs, UnansweredIs

\* A direction that flows, and whose opposite does not, is the media of a call
\* that is up with one side only; and in a complete capture that call is in it.
LEMMA OneWayIs ==
  ASSUME TraceInv
  PROVE  /\ OneWayFlows <=> \E c \in Calls : rtp[<<c, "out">>] = MinRtp /\ rtp[<<c, "in">>] < MinRtp
         /\ \A c \in Calls : rtp[<<c, "out">>] = MinRtp => WasUp(c)
<1>1. \A c \in Calls : /\ rtp[<<c, "out">>] \in {0, MinRtp} /\ rtp[<<c, "in">>] \in Nat
                       /\ rtp[<<c, "out">>] = 0 => rtp[<<c, "in">>] <= 1
                       /\ rtp[<<c, "out">>] # 0 => WasUp(c)
  BY DEF TraceInv, TraceTypeOK, Flowing
<1>2. MinRtp \in Nat /\ MinRtp > 1 /\ ~ (0 >= MinRtp) /\ MinRtp >= MinRtp
  BY RtpAssumption
<1>3. \A k : k \in Flows <=> k \in Calls \X {"in", "out"} /\ rtp[k] >= MinRtp
  BY DEF Flows, IsFlow, TraceInv, TraceTypeOK
<1>4. \A c \in Calls : /\ <<c, "out">> \in Flows <=> rtp[<<c, "out">>] = MinRtp
                       /\ <<c, "in">> \in Flows <=> ~ (rtp[<<c, "in">>] < MinRtp)
                       /\ <<c, "in">> \in Flows => <<c, "out">> \in Flows
  <2> SUFFICES ASSUME NEW c \in Calls
               PROVE  /\ <<c, "out">> \in Flows <=> rtp[<<c, "out">>] = MinRtp
                      /\ <<c, "in">> \in Flows <=> ~ (rtp[<<c, "in">>] < MinRtp)
                      /\ <<c, "in">> \in Flows => <<c, "out">> \in Flows
    OBVIOUS
  <2>1. <<c, "out">> \in Flows <=> rtp[<<c, "out">>] = MinRtp
    BY <1>1, <1>2, <1>3
  <2>2. <<c, "in">> \in Flows <=> rtp[<<c, "in">>] >= MinRtp
    BY <1>3
  <2>3. rtp[<<c, "in">>] >= MinRtp <=> ~ (rtp[<<c, "in">>] < MinRtp)
    <3>1. rtp[<<c, "in">>] \in Nat
      BY <1>1
    <3> QED
      BY <1>2, <3>1
  <2>4. rtp[<<c, "in">>] >= MinRtp => rtp[<<c, "out">>] = MinRtp
    BY <1>1, <1>2
  <2> QED
    BY <2>1, <2>2, <2>3, <2>4
<1>5. \A c \in Calls : Opposite(<<c, "in">>) = <<c, "out">> /\ Opposite(<<c, "out">>) = <<c, "in">>
  BY DEF Opposite
<1>6. \A k \in Flows : \E c \in Calls : k = <<c, "in">> \/ k = <<c, "out">>
  BY <1>3
<1>7. ASSUME OneWayFlows
      PROVE  \E c \in Calls : rtp[<<c, "out">>] = MinRtp /\ rtp[<<c, "in">>] < MinRtp
  <2>1. PICK k \in Flows : Opposite(k) \notin Flows
    BY <1>7 DEF OneWayFlows
  <2>2. PICK c \in Calls : k = <<c, "in">> \/ k = <<c, "out">>
    BY <1>6
  <2> QED
    BY <1>4, <1>5, <2>1, <2>2
<1>8. ASSUME NEW c \in Calls, rtp[<<c, "out">>] = MinRtp, rtp[<<c, "in">>] < MinRtp
      PROVE  OneWayFlows
  BY <1>4, <1>5, <1>8 DEF OneWayFlows
<1> QED
  BY <1>1, <1>2, <1>7, <1>8

LEMMA LoneIs == ASSUME TraceInv PROVE Cardinality(SeenCalls) = 1 <=> \E c : SeenCalls = {c}
<1>1. [m \in trace |-> m.call] \in Surjection(trace, SeenCalls)
  BY DEF Surjection, SeenCalls
<1>2. IsFiniteSet(SeenCalls)
  BY <1>1, FS_Surjection DEF TraceInv, TraceTypeOK
<1> QED
  BY <1>2, FS_Singleton

\* The address of the answer, and whether any address is private.
LEMMA AddressIs ==
  ASSUME TraceInv, NEW c \in Calls
  PROVE  AnswerAddress(c) = "private" <=> Private(c)
<1> DEFINE with == {m \in Of(c) : m.status = 200 /\ m.media # "none"}
<1>1. with \in SUBSET trace /\ \A m \in Of(c) : m.media # "none" => m \in with
  BY FitsOf DEF Of, Fits, Accepted
<1>2. CASE with = {}
  BY <1>1, <1>2 DEF AnswerAddress, Private
<1>3. CASE with # {}
  <2>1. Earliest(with) \in with /\ \A n \in with : Earliest(with).ts <= n.ts
    BY <1>1, <1>3, EarliestIs
  <2>2. AnswerAddress(c) = Earliest(with).media
    BY <1>3 DEF AnswerAddress
  <2>3. ASSUME NEW m \in Of(c), m.media = "private" PROVE Earliest(with).media = "private"
    <3>1. m \in with
      BY <1>1, <2>3
    <3>2. m.ts <= Earliest(with).ts /\ Earliest(with).ts <= m.ts
      BY <2>1, <2>3, <3>1 DEF TraceInv, PrivateFirst
    <3>3. m = Earliest(with)
      BY <1>1, <2>1, <3>1, <3>2 DEF TraceInv, TraceTypeOK
    <3> QED
      BY <2>3, <3>3
  <2> QED
    BY <2>1, <2>2, <2>3 DEF Private
<1> QED
  BY <1>2, <1>3

\* What makes a call connected, or one-way.
LEMMA AudioIs ==
  ASSUME TraceInv, NothingLost, NEW c \in SeenCalls
  PROVE  /\ Diagnosis(c).code = "ONE_WAY_AUDIO" => OneSided(c)
         /\ Diagnosis(c).code = "CONNECTED" => ~Private(c) /\ (OneSided(c) => SeenCalls # {c})
<1>0. c \in Calls
  BY SeenIs
<1>1. ASSUME Diagnosis(c).code = "ONE_WAY_AUDIO" PROVE OneSided(c)
  <2>1. AnswerAddress(c) = "private" \/ OneWay
    BY <1>1, DiagnosisIs, CodesAre DEF Answered
  <2>2. ASSUME OneWay PROVE OneSided(c)
    <3>1. SeenCalls = {c}
      BY <2>2, LoneIs DEF OneWay
    <3>2. PICK d \in Calls : rtp[<<d, "out">>] = MinRtp /\ rtp[<<d, "in">>] < MinRtp
      BY <2>2, OneWayIs DEF OneWay
    <3>3. WasUp(d)
      BY <3>2, OneWayIs
    <3>4. \E m \in Of(d) : Accepted(m)
      BY <3>3 DEF TraceInv, Heard, WasUp, UpStates
    <3>5. d = c
      BY <3>1, <3>4, SeenIs
    <3> QED
      BY <3>2, <3>5 DEF OneSided
  <2> QED
    BY <1>0, <2>1, <2>2, AddressIs DEF OneSided
<1>2. ASSUME Diagnosis(c).code = "CONNECTED" PROVE ~Private(c) /\ (OneSided(c) => SeenCalls # {c})
  <2>1. AnswerAddress(c) # "private" /\ ~OneWay
    BY <1>2, DiagnosisIs, CodesAre DEF Answered
  <2>2. ~Private(c)
    BY <1>0, <2>1, AddressIs
  <2>3. ASSUME OneSided(c), SeenCalls = {c} PROVE FALSE
    <3>1. rtp[<<c, "out">>] = MinRtp /\ rtp[<<c, "in">>] < MinRtp
      BY <2>2, <2>3 DEF OneSided
    <3> QED
      BY <1>0, <2>1, <2>3, <3>1, OneWayIs, LoneIs DEF OneWay
  <2> QED
    BY <2>2, <2>3
<1> QED
  BY <1>1, <1>2

LEMMA MediaJudged == TraceInv => MediaIsJudged
BY ToldIs, AudioIs DEF MediaIsJudged

\* A call whose media has one side only came up.
LEMMA OneSidedIs == ASSUME TraceInv, NEW c \in Calls, OneSided(c) PROVE WasUp(c)
<1>1. CASE Private(c)
  BY <1>1, FitsOf DEF Private, Fits, Accepted, Final, WasUp, UpStates
<1>2. CASE rtp[<<c, "out">>] = MinRtp
  BY <1>2, OneWayIs
<1> QED
  BY <1>1, <1>2 DEF OneSided

\* Where each domain of a complete capture comes from.
LEMMA DomainsAre ==
  ASSUME TraceInv, NothingLost, NEW c \in SeenCalls
  PROVE  LET d == Diagnosis(c).domain IN
         /\ d \in {"ok", "auth", "routing", "B", "D", "E"}
         /\ d = "E" => \E m \in trace : m.status = 488 /\ dialog[m.call] = "refused"
         /\ d = "D" => OneSided(c)
         /\ d = "B" => Unserved(c) \/ dialog[c] = "pinging"
         /\ d = "ok" => /\ WasUp(c) \/ dialog[c] \in {"cleared", "pinged"}
                        /\ OneSided(c) => ~Private(c) /\ SeenCalls # {c}
<1>0. c \in Calls
  BY SeenIs
<1>1. CASE Diagnosis(c) = Answered(c) /\ InviteFinal(c) \in Of(c) /\ Accepted(InviteFinal(c))
  <2>1. WasUp(c)
    BY <1>1, FitsOf DEF Fits, Accepted, Final, WasUp, UpStates
  <2>2. \/ Diagnosis(c).code = "ONE_WAY_AUDIO" /\ Diagnosis(c).domain = "D"
        \/ Diagnosis(c).code = "CONNECTED" /\ Diagnosis(c).domain = "ok"
    BY <1>1, CodesAre DEF Answered
  <2> QED
    BY <2>1, <2>2, AudioIs
<1>2. CASE Diagnosis(c) = Rejected(InviteFinal(c).status)
  <2>1. Diagnosis(c).code = "REJECTED" /\ Diagnosis(c).domain = Cause(InviteFinal(c).status)
    BY <1>2, CodesAre
  <2>2. /\ \/ InviteFinal(c).status = 407
           \/ InviteFinal(c).status \in {404, 488, 503} /\ dialog[c] = "refused"
           \/ InviteFinal(c).status \in {486, 487} /\ dialog[c] = "cleared"
        /\ InviteFinal(c) \in Of(c)
    BY <1>0, <2>1, RejectedIs
  <2>3. dialog[c] = "cleared" => ~OneSided(c)
    BY <1>0, OneSidedIs DEF WasUp
  <2>4. CASE InviteFinal(c).status \in {404, 407}
    BY <2>1, <2>2, <2>4 DEF Cause
  <2>7. CASE InviteFinal(c).status = 503
    <3>1. Diagnosis(c).domain = "B"
      BY <2>1, <2>7 DEF Cause
    <3>2. Unserved(c)
      BY <2>2, <2>7 DEF Unserved
    <3> QED
      BY <3>1, <3>2
  <2>5. CASE InviteFinal(c).status = 488
    <3>1. Diagnosis(c).domain = "E"
      BY <2>1, <2>5 DEF Cause
    <3>2. InviteFinal(c) \in trace /\ InviteFinal(c).call = c
      BY <2>2 DEF Of
    <3> QED
      BY <2>2, <2>5, <3>1, <3>2
  <2>6. CASE InviteFinal(c).status \in {486, 487}
    <3>1. Diagnosis(c).domain = "ok"
      BY <2>1, <2>6 DEF Cause
    <3> QED
      BY <2>2, <2>3, <2>6, <3>1
  <2> QED
    BY <2>2, <2>4, <2>5, <2>6, <2>7
<1>3. CASE Diagnosis(c) \in {Found("NO_ANSWER", "B"), Found("OPTIONS_UNANSWERED", "B")}
  BY <1>0, <1>3, CodesAre, UnansweredIs DEF Unserved
<1>4. CASE Diagnosis(c) = Found("OPTIONS_OK", "ok") /\ \E m \in Of(c) : Pong(m)
  <2>1. dialog[c] = "pinged"
    BY <1>4, FitsOf DEF Fits
  <2> QED
    BY <1>0, <1>4, <2>1, CodesAre, OneSidedIs DEF WasUp
<1>5. CASE Diagnosis(c) = Found("UNKNOWN", "ok")
  BY <1>0, <1>5, CodesAre, UnansweredIs
<1> QED
  BY <1>1, <1>2, <1>3, <1>4, <1>5, DiagnosisIs

LEMMA ShownCaused == TraceInv => ShownHasCause
<1> SUFFICES ASSUME TraceInv, Explained, NothingLost, NEW class \in DOMAIN Classes, Agrees(class)
             PROVE  \/ Causes[class]
                    \/ class = "TLS_HANDSHAKE_FAILED" /\ OnlyEncrypted
                    \/ class = "OPTIONS_BLACKHOLE" /\ \E c \in SeenCalls : Unserved(c)
  BY ToldIs DEF ShownHasCause
<1>1. /\ \A d \in FaultDomains : \/ d = "C" /\ (tlsSeen = "alert" \/ OnlyEncrypted)
                                 \/ d = "F" /\ \E m \in trace : m.leaked
                                 \/ \E c \in SeenCalls : d = Diagnosis(c).domain
      /\ FaultDomains = {} => /\ tlsSeen # "alert" /\ ~ \E m \in trace : m.leaked
                              /\ \A c \in SeenCalls : Diagnosis(c).domain = "ok"
  <2>1. \A m \in trace : m.call \in SeenCalls /\ m \in Of(m.call)
    BY DEF SeenCalls, Of
  <2>2. \A c : Leaks(c) => \E m \in trace : m.leaked
    BY DEF Leaks, Of
  <2>3. \A m \in trace : m.leaked => m.call \in SeenCalls /\ Leaks(m.call)
    BY <2>1 DEF Leaks
  <2>4. FaultDomains = (TopDomains \cup {Diagnosis(c).domain : c \in SeenCalls}
                        \cup {"F" : c \in {d \in SeenCalls : Leaks(d)}}) \ {"ok"}
    BY DEF FaultDomains, Domains
  <2>5. TopDomains = IF tlsSeen = "alert" \/ OnlyEncrypted THEN {"C"} ELSE {}
    BY DEF TopDomains, OnlyEncrypted
  <2>6. FaultDomains = {} => ~ \E m \in trace : m.leaked
    BY <2>3, <2>4
  <2> QED
    BY <2>2, <2>4, <2>5, <2>6
<1>2. class \in {"CLEAN", "REJECT_488", "ONE_WAY_AUDIO", "TOPOLOGY_LEAK", "OPTIONS_BLACKHOLE",
                 "TLS_HANDSHAKE_FAILED"}
  BY DEF Classes
<1>3. CASE class = "CLEAN"
  <2>1. FaultDomains = {}
    BY <1>3 DEF Agrees, Classes
  <2> QED
    BY <1>1, <1>3, <2>1, DomainsAre, ZenonT(60) DEF Causes
<1>4. CASE class = "REJECT_488"
  BY <1>1, <1>4, DomainsAre DEF Causes, Agrees, Classes
<1>5. CASE class = "ONE_WAY_AUDIO"
  BY <1>1, <1>5, DomainsAre DEF Causes, Agrees, Classes
<1>6. CASE class = "TOPOLOGY_LEAK"
  BY <1>1, <1>6, DomainsAre DEF Causes, Agrees, Classes
<1>7. CASE class = "OPTIONS_BLACKHOLE"
  BY <1>1, <1>7, DomainsAre DEF Causes, Agrees, Classes
<1>8. CASE class = "TLS_HANDSHAKE_FAILED"
  <2>1. "C" \in FaultDomains
    BY <1>8 DEF Agrees, Classes
  <2>2. tlsSeen = "alert" \/ OnlyEncrypted
    BY <1>1, <2>1, DomainsAre
  <2> QED
    BY <1>8, <2>2 DEF Causes
<1> QED
  BY <1>2, <1>3, <1>4, <1>5, <1>6, <1>7, <1>8
------------------------------------------------------------------------------
(* The commands together. *)

\* Whatever commands are run beside it, `validate` stays what it is.
THEOREM ValidateUndisturbed == CommandSpec => Spec
<1>1. CommandInit => Init
  BY DEF CommandInit
<1>2. [CommandNext]_commandVars => [Next]_vars
  BY DEF CommandNext, commandVars, ValidateStep, RunDiff, RunProbe, ValidateEach, SumUp,
     ReadCertificate, WalkCertificate, JudgeChain, TapAndExplain, Say
<1> QED
  BY <1>1, <1>2, PTL DEF CommandSpec, Spec

THEOREM FilesKnown == CommandSpec => [](file \in Files)
<1>1. TypeOK => file \in Files
  BY DEF TypeOK
<1> QED
  BY <1>1, TypeCorrect, ValidateUndisturbed, PTL

\* The reading of a certificate file and the explaining of a capture are the
\* walks and the analysis proved about above.
THEOREM CommandsImplement == CommandSpec => ChainSpec /\ TraceSpec
<1>1. CommandInit => NothingOpen /\ NoCapture
  BY DEF CommandInit
<1>2. file \in Files /\ [CommandNext]_commandVars => [ChainStep]_chainVars
  <2> SUFFICES ASSUME file \in Files, [CommandNext]_commandVars PROVE [ChainStep]_chainVars
    OBVIOUS
  <2>1. CASE ReadCertificate
    <3>1. \E b \in Seq(Cert) \ {<< >>} : Open(b)
      BY <2>1, CommandAssumption DEF ReadCertificate
    <3> QED
      BY <3>1 DEF ChainStep
  <2>2. CASE WalkCertificate \/ JudgeChain
    BY <2>2 DEF WalkCertificate, JudgeChain, ChainStep
  <2>3. CASE ValidateStep \/ RunDiff \/ RunProbe \/ ValidateEach \/ SumUp \/ TapAndExplain
    BY <2>3 DEF ValidateStep, RunDiff, RunProbe, ValidateEach, SumUp, TapAndExplain, Say
  <2> QED
    BY <2>1, <2>2, <2>3 DEF CommandNext, commandVars
<1>3. [CommandNext]_commandVars => [TraceStep]_traceVars
  BY DEF CommandNext, commandVars, ValidateStep, RunDiff, RunProbe, ValidateEach, SumUp,
     ReadCertificate, WalkCertificate, JudgeChain, TapAndExplain, Say
<1> QED
  BY <1>1, <1>2, <1>3, FilesKnown, PTL DEF CommandSpec, ChainSpec, TraceSpec

\* A call is only said to be connected if it was answered, whatever the tap lost
\* (analyze).
THEOREM ConnectedWasAnswered == CommandSpec => []ConnectedIsAnswered
BY CommandsImplement, TraceInvariance, Connected, PTL

\* A failure that a complete capture shows is one (analyze).
THEOREM FailuresAreReal == CommandSpec => []FailureIsReal
BY CommandsImplement, TraceInvariance, FailureReal, PTL

\* One-way audio is said of a call whose own media is broken, and a lone call
\* with a broken path is not called connected (analyze).
THEOREM MediaIsJudgedRight == CommandSpec => []MediaIsJudged
BY CommandsImplement, TraceInvariance, MediaJudged, PTL

\* What is shown of the model's explanations of a complete capture has its cause
\* in it, whatever the model says, but for a failed handshake shown for what is
\* merely encrypted and unanswered keep-alives shown for a call not served
\* (explain_capture).
THEOREM ShownExplanationsHaveCause == CommandSpec => []ShownHasCause
BY CommandsImplement, TraceInvariance, ShownCaused, PTL
\* What a command has said is computed from the files it was run on; it is the
\* last thing that happens to them.
RowsOf(rows) ==
  \A f \in DOMAIN rows : f \in Files /\ Parse(f) # Unparsable /\ rows[f] = FleetRow(f)
Compared(o) == \E other \in Peers(file) :
  /\ Unparsable \notin {Parse(file), Parse(other)}
  /\ o.other = other /\ o.drift = HaDiff(Parse(file), Parse(other))
  /\ o.ours = FindingsOf(file) /\ o.theirs = FindingsOf(other)
SaidInv ==
  /\ out # Idle => pass \in {"closed", "judged"}
  /\ Ran("diff") /\ out.exit # 2 => Compared(out)
  /\ Ran("probe") => /\ file \in Listening /\ Presents(Parse(file))
                     /\ out.hs \in Handshakes(Parse(file)) /\ out.grade = Grade(out.hs)
                     /\ out.ours = FindingsOf(file)
  /\ Ran("rows") \/ Ran("fleet") => RowsOf(out.rows)
  /\ Ran("fleet") => out.atRisk = AtCascadeRisk(out.rows)
  /\ Ran("inspect") =>
       /\ pass = "judged"
       /\ out.findings = Chain([chain |-> ChainOf], Demanded(Teams(Parse(file)).tls))

\* Nothing is done to a file once a command has spoken, but to sum up the rows.
LEMMA SpokenStep ==
  ASSUME SaidInv, out # Idle, CommandNext, ~SumUp
  PROVE  UNCHANGED commandVars
BY DEF SaidInv, CommandNext, ValidateStep, RunDiff, RunProbe, ValidateEach, ReadCertificate,
   WalkCertificate, JudgeChain, Judge, TapAndExplain, Start, commandVars

LEMMA SpokenStays ==
  ASSUME SaidInv, UNCHANGED commandVars
  PROVE  SaidInv'
<1>1. out' = out /\ file' = file /\ pass' = pass /\ ChainOf' = ChainOf
  BY DEF commandVars, vars, chainVars, ChainOf, SelfIssued
<1> QED
  BY <1>1 DEF SaidInv, Ran, Compared, RowsOf

LEMMA SaidStep ==
  ASSUME SaidInv, file \in Files, [CommandNext]_commandVars
  PROVE  SaidInv'
<1>1. CASE UNCHANGED commandVars
  BY <1>1, SpokenStays
<1>2. CASE out # Idle /\ CommandNext /\ ~SumUp
  BY <1>2, SpokenStep, SpokenStays
<1>3. CASE SumUp
  <2>1. /\ Ran("rows") /\ RowsOf(out.rows)
        /\ out'.cmd = "fleet" /\ out'.rows = out.rows /\ out'.atRisk = AtCascadeRisk(out.rows)
        /\ pass' = pass /\ pass \in {"closed", "judged"}
    BY <1>3 DEF SumUp, Say, SaidInv, Ran, chainVars
  <2> QED
    BY <2>1 DEF SaidInv, Ran, RowsOf, AtCascadeRisk, Sharing
<1>4. CASE out = Idle /\ (ValidateStep \/ ReadCertificate \/ WalkCertificate \/ TapAndExplain)
  <2>1. out' = Idle
    BY <1>4 DEF ValidateStep, ReadCertificate, WalkCertificate, TapAndExplain
  <2> QED
    BY <2>1 DEF SaidInv, Ran
<1>5. CASE RunDiff
  <2>0. pass' = "closed" /\ file' = file
    BY <1>5 DEF RunDiff, Start, Say, chainVars, vars
  <2>1. PICK other \in Peers(file) :
          IF Unparsable \in {Parse(file), Parse(other)} THEN Say([cmd |-> "diff", exit |-> 2])
          ELSE LET drift == HaDiff(Parse(file), Parse(other)) IN
               \E failOn \in {"block", "review", "any"} :
                 Say([cmd |-> "diff", other |-> other, drift |-> drift, exit |-> DiffExit(drift, failOn),
                      ours |-> FindingsOf(file), theirs |-> FindingsOf(other)])
    BY <1>5 DEF RunDiff
  <2>2. out'.cmd = "diff"
    BY <2>1 DEF Say
  <2>3. CASE Unparsable \in {Parse(file), Parse(other)}
    <3>1. out'.exit = 2
      BY <2>1, <2>3 DEF Say
    <3> QED
      BY <2>0, <2>2, <3>1 DEF SaidInv, Ran
  <2>4. CASE Unparsable \notin {Parse(file), Parse(other)}
    <3>1. /\ out'.other = other /\ out'.drift = HaDiff(Parse(file), Parse(other))
          /\ out'.ours = FindingsOf(file) /\ out'.theirs = FindingsOf(other)
      BY <2>1, <2>4 DEF Say
    <3>2. Compared(out)'
      BY <2>0, <2>4, <3>1 DEF Compared
    <3> QED
      BY <2>0, <2>2, <3>2 DEF SaidInv, Ran
  <2> QED
    BY <2>3, <2>4
<1>6. CASE RunProbe
  <2>1. /\ pass' = "closed" /\ file' = file /\ file \in Listening /\ Presents(Parse(file))
        /\ out'.cmd = "probe" /\ out'.hs \in Handshakes(Parse(file)) /\ out'.grade = Grade(out'.hs)
        /\ out'.ours = FindingsOf(file)
    BY <1>6 DEF RunProbe, Start, Say, chainVars, vars
  <2> QED
    BY <2>1 DEF SaidInv, Ran
<1>7. CASE ValidateEach
  <2>1. PICK other \in Peers(file) :
          Say([cmd |-> "rows",
               rows |-> [f \in {g \in {file, other} : Parse(g) # Unparsable} |-> FleetRow(f)]])
    BY <1>7 DEF ValidateEach
  <2>2. pass' = "closed" /\ out'.cmd = "rows" /\ other \in Files
    BY <1>7, <2>1, CommandAssumption DEF ValidateEach, Start, Say, chainVars
  <2>3. out'.rows = [f \in {g \in {file, other} : Parse(g) # Unparsable} |-> FleetRow(f)]
    BY <2>1 DEF Say
  <2>4. RowsOf(out'.rows)
    BY <2>2, <2>3 DEF RowsOf
  <2> QED
    BY <2>2, <2>4 DEF SaidInv, Ran, RowsOf
<1>8. CASE out = Idle /\ JudgeChain
  <2>1. /\ out'.cmd = "inspect" /\ pass' = "judged" /\ file' = file
        /\ out'.findings = Chain([chain |-> ChainOf], Demanded(Teams(Parse(file)).tls))
    BY <1>8 DEF JudgeChain, Judge, vars
  <2>2. ChainOf' = ChainOf
    BY <1>8 DEF JudgeChain, Judge, ChainOf, SelfIssued
  <2> QED
    BY <2>1, <2>2 DEF SaidInv, Ran
<1> QED
  BY <1>1, <1>2, <1>3, <1>4, <1>5, <1>6, <1>7, <1>8 DEF CommandNext

THEOREM SaidIsComputed == CommandSpec => []SaidInv
<1>1. CommandInit => SaidInv
  BY DEF CommandInit, SaidInv, Ran
<1>2. SaidInv /\ file \in Files /\ [CommandNext]_commandVars => SaidInv'
  BY SaidStep
<1> QED
  BY <1>1, <1>2, FilesKnown, PTL DEF CommandSpec
------------------------------------------------------------------------------
(* What a check id says of the configuration it was found in. *)

LEMMA CaSays ==
  ASSUME NEW c, NEW f \in AllFindings(c)
  PROVE  /\ f.id = "C.TLS.NO_CONTEXT" => HasTeams(c) /\ Teams(c).tls = NoContext
         /\ f.id \in ContextIds => /\ HasTeams(c) /\ Teams(c).tls # NoContext
                                   /\ f \in Context(c, Teams(c), Teams(c).tls)
         /\ f.id = "C.CERT.MISSING" => HasTeams(c) /\ Teams(c).tls # NoContext /\ LeafOf(c) = NoCert
         /\ f.id \in CertIds =>
              HasLeaf(c) /\ f \in LeafCert(LeafOf(c), c, Demanded(Teams(c).tls))
<1> SUFFICES ASSUME f.id \in CaIds
             PROVE  /\ f.id = "C.TLS.NO_CONTEXT" => HasTeams(c) /\ Teams(c).tls = NoContext
                    /\ f.id \in ContextIds => /\ HasTeams(c) /\ Teams(c).tls # NoContext
                                              /\ f \in Context(c, Teams(c), Teams(c).tls)
                    /\ f.id = "C.CERT.MISSING" =>
                         HasTeams(c) /\ Teams(c).tls # NoContext /\ LeafOf(c) = NoCert
                    /\ f.id \in CertIds =>
                         HasLeaf(c) /\ f \in LeafCert(LeafOf(c), c, Demanded(Teams(c).tls))
  BY DEF CaIds
<1>1. f \in CaCompliance(c)
  BY WhoFound
<1>2. CASE ~HasTeams(c)
  <2>1. f.id = "C.IFACE.NO_TEAMS"
    BY <1>1, <1>2 DEF CaCompliance, When, Each
  <2> QED
    BY <2>1 DEF ContextIds, CertIds, ChainIds
<1>3. CASE HasTeams(c) /\ Teams(c).tls = NoContext
  <2>1. f.id = "C.TLS.NO_CONTEXT"
    BY <1>1, <1>3 DEF CaCompliance, When, Each
  <2> QED
    BY <1>3, <2>1 DEF ContextIds, CertIds, ChainIds
<1>4. CASE HasTeams(c) /\ Teams(c).tls # NoContext
  <2>1. f \in Context(c, Teams(c), Teams(c).tls)
    BY <1>1, <1>4 DEF CaCompliance
  <2>2. CASE f.id \in ContextIds
    BY <1>4, <2>1, <2>2 DEF ContextIds, CertIds, ChainIds
  <2>3. CASE f \in LeafFindings(Teams(c).tls, c, Demanded(Teams(c).tls))
    <3>1. \/ LeafOf(c) # NoCert /\ f \in LeafCert(LeafOf(c), c, Demanded(Teams(c).tls)) /\ f.id \in CertIds
          \/ LeafOf(c) = NoCert /\ f.id \in {"C.CERT.MISSING", "C.CERT.UNAVAILABLE"}
      BY <2>3, LeafFindingNames DEF LeafOf
    <3>2. f.id \notin ContextIds /\ f.id # "C.TLS.NO_CONTEXT"
      BY <3>1 DEF ContextIds, CertIds, ChainIds
    <3>3. CertIds \cap {"C.CERT.MISSING", "C.CERT.UNAVAILABLE"} = {}
      BY DEF CertIds, ChainIds
    <3> QED
      BY <1>4, <3>1, <3>2, <3>3 DEF HasLeaf
  <2> QED
    BY <2>1, <2>2, <2>3, ContextNames
<1> QED
  BY <1>2, <1>3, <1>4

\* ... and back.
LEMMA ContextSaid ==
  ASSUME NEW c, HasTeams(c), Teams(c).tls # NoContext
  PROVE  /\ Context(c, Teams(c), Teams(c).tls) \subseteq AllFindings(c)
         /\ HasLeaf(c) => LeafCert(LeafOf(c), c, Demanded(Teams(c).tls)) \subseteq AllFindings(c)
BY DEF AllFindings, CaCompliance, Context, LeafFindings, HasLeaf, LeafOf

\* The faults of the leaf itself.
LEMMA LeafSays ==
  ASSUME NEW c, NEW f \in AllFindings(c), f.id \in LeafIds
  PROVE  /\ HasLeaf(c)
         /\ f.id = "C.CERT.EXPIRY" =>
              \/ LeafOf(c).expiry = "past" /\ f.sev = "CRITICAL"
              \/ LeafOf(c).expiry = "soon" /\ f.sev = "MEDIUM"
         /\ f.id = "C.CERT.EKU_NO_SERVERAUTH" => "server" \notin LeafOf(c).ekus /\ f.sev = "HIGH"
         /\ f.id = "C.CERT.FQDN_MISMATCH" => c.fqdn # "none" /\ ~LeafOf(c).covers /\ f.sev = "HIGH"
<1>1. f.id \in CertIds /\ f.id \notin ChainIds
  BY DEF LeafIds, CertIds, ChainIds
<1>2. HasLeaf(c) /\ f \in LeafCert(LeafOf(c), c, Demanded(Teams(c).tls))
  BY <1>1, CaSays
<1>3. f \notin Chain(LeafOf(c), Demanded(Teams(c).tls))
  BY <1>1, ChainNames
<1>4. \/ f \in Inspection(LeafOf(c)) \/ f \in Usage(LeafOf(c)) \/ f \in Expiry(LeafOf(c))
      \/ f \in When(c.fqdn # "none" /\ ~LeafOf(c).covers, "C.CERT.FQDN_MISMATCH", "HIGH")
      \/ f.id \in {"C.CERT.ISSUER_PROGRAM_UNVERIFIED", "C.CERT.CHAIN_INCOMPLETE"}
  BY <1>2, <1>3, WhenIs DEF LeafCert
<1>5. f.id = "C.CERT.EXPIRY" =>
              \/ LeafOf(c).expiry = "past" /\ f.sev = "CRITICAL"
              \/ LeafOf(c).expiry = "soon" /\ f.sev = "MEDIUM"
  BY <1>4 DEF Inspection, Usage, Expiry, When, Each
<1>6. f.id = "C.CERT.EKU_NO_SERVERAUTH" => "server" \notin LeafOf(c).ekus /\ f.sev = "HIGH"
  BY <1>4 DEF Inspection, Usage, Expiry, When, Each
<1>7. f.id = "C.CERT.FQDN_MISMATCH" => c.fqdn # "none" /\ ~LeafOf(c).covers /\ f.sev = "HIGH"
  BY <1>4 DEF Inspection, Usage, Expiry, When, Each
<1> QED
  BY <1>2, <1>5, <1>6, <1>7

LEMMA LeafSaid ==
  ASSUME NEW c, HasLeaf(c)
  PROVE  /\ Usage(LeafOf(c)) \cup Expiry(LeafOf(c)) \subseteq AllFindings(c)
         /\ When(c.fqdn # "none" /\ ~LeafOf(c).covers, "C.CERT.FQDN_MISMATCH", "HIGH")
              \subseteq AllFindings(c)
<1>1. LeafCert(LeafOf(c), c, Demanded(Teams(c).tls)) \subseteq AllFindings(c)
  BY ContextSaid DEF HasLeaf
<1> QED
  BY <1>1 DEF LeafCert
------------------------------------------------------------------------------
(* The probe. *)

\* What a handshake shows of the configuration behind it.
LEMMA ShakenIs ==
  ASSUME NEW c, NEW hs \in Handshakes(c), hs.reachable
  PROVE  /\ hs.leaf = LeafOf(c)
         /\ hs.left \in DaysLeft /\ ExpiryClass(hs.left) = LeafOf(c).expiry
<1> DEFINE x == Teams(c).tls
           K == IF x.ciphers = "foreign" THEN {FALSE} ELSE BOOLEAN
           D == {e \in DaysLeft : ExpiryClass(e) = x.cert.expiry}
           S == {[reachable |-> TRUE, version |-> v, listed |-> k, leaf |-> x.cert, left |-> d] :
                   v \in AtLeast(x.minTls), k \in K, d \in D}
<1>0. Handshakes(c) = {Unreachable} \cup S
  BY DEF Handshakes
<1> HIDE DEF S
<1>1. hs \in S
  BY <1>0 DEF Unreachable
<1> USE DEF S
<1> HIDE DEF K
<1>2. \E v \in AtLeast(x.minTls), k \in K, d \in D :
        hs = [reachable |-> TRUE, version |-> v, listed |-> k, leaf |-> x.cert, left |-> d]
  BY <1>1
<1> QED
  BY <1>2 DEF LeafOf

LEMMA ClassIs ==
  ASSUME NEW left \in DaysLeft
  PROVE  /\ left \in Int /\ RemainingDays(left) = left - 1
         /\ ExpiryClass(left) = "past" <=> left < 0
         /\ ExpiryClass(left) = "soon" <=> left \in 0..WarnDays
BY DEF DaysLeft, ExpiryClass, RemainingDays, WarnDays

LEMMA IssueNames ==
  ASSUME NEW hs, hs.reachable
  PROVE  \A g : g \in Issues(hs) /\ g.id \in LeafIds <=> g \in LeafIssues(hs)
<1>1. \A g \in LeafIssues(hs) : g.id \in LeafIds
  BY DEF LeafIssues, When, Each, LeafIds
<1>2. \A g \in Issues(hs) : g \in LeafIssues(hs) \/ g.id \in {"C.TLS.WEAK_VERSION", "C.TLS.CIPHER_NOT_ALLOWED"}
  BY DEF Issues, When, Each
<1>3. LeafIssues(hs) \subseteq Issues(hs)
  BY DEF Issues
<1> QED
  BY <1>1, <1>2, <1>3 DEF LeafIds

LEMMA SeverityIs ==
  \A f : /\ f.sev = "MEDIUM" => Severity(f) = 2
         /\ f.sev = "HIGH" => Severity(f) = 3
         /\ f.sev = "CRITICAL" => Severity(f) = 4
BY DEF Severity

\* What validate says of the leaf, the probe says at least as severely.
LEMMA InsideIsOutside ==
  ASSUME NEW c, NEW hs \in Handshakes(c), hs.reachable,
         NEW f \in AllFindings(c), f.id \in LeafIds
  PROVE  \/ \E g \in LeafIssues(hs) : g.id = f.id /\ Severity(g) >= Severity(f)
         \/ f.id = "C.CERT.EKU_NO_SERVERAUTH" /\ hs.leaf.ekus = {}
<1>1. /\ hs.leaf = LeafOf(c) /\ hs.left \in DaysLeft
      /\ ExpiryClass(hs.left) = LeafOf(c).expiry
  BY ShakenIs
<1>2. /\ hs.left \in Int /\ RemainingDays(hs.left) = hs.left - 1
      /\ ExpiryClass(hs.left) = "past" <=> hs.left < 0
      /\ ExpiryClass(hs.left) = "soon" <=> hs.left \in 0..WarnDays
  BY <1>1, ClassIs
<1>3. CASE f.id = "C.CERT.EXPIRY"
  <2> DEFINE worst == [id |-> "C.CERT.EXPIRY", sev |-> "CRITICAL", at |-> 0]
             grave == [id |-> "C.CERT.EXPIRY", sev |-> "HIGH", at |-> 0]
  <2>1. CASE LeafOf(c).expiry = "past" /\ f.sev = "CRITICAL"
    <3>1. worst \in LeafIssues(hs)
      <4>1. RemainingDays(hs.left) < 0
        BY <1>1, <1>2, <2>1
      <4> QED
        BY <4>1, InWhen DEF LeafIssues
    <3>2. Severity(worst) >= Severity(f)
      BY <2>1, SeverityIs
    <3> QED
      BY <1>3, <3>1, <3>2
  <2>2. CASE LeafOf(c).expiry = "soon" /\ f.sev = "MEDIUM"
    <3>1. RemainingDays(hs.left) < 0 \/ RemainingDays(hs.left) \in 0..WarnDays
      BY <1>1, <1>2, <2>2 DEF WarnDays
    <3>2. worst \in LeafIssues(hs) \/ grave \in LeafIssues(hs)
      BY <3>1, InWhen DEF LeafIssues
    <3>3. Severity(worst) >= Severity(f) /\ Severity(grave) >= Severity(f)
      BY <2>2, SeverityIs
    <3> QED
      BY <1>3, <3>2, <3>3
  <2> QED
    BY <1>3, <2>1, <2>2, LeafSays
<1>4. CASE f.id = "C.CERT.EKU_NO_SERVERAUTH"
  <2> DEFINE g == [id |-> "C.CERT.EKU_NO_SERVERAUTH", sev |-> "HIGH", at |-> 0]
  <2>1. "server" \notin LeafOf(c).ekus /\ f.sev = "HIGH"
    BY <1>4, LeafSays
  <2>2. hs.leaf.ekus # {} => g \in LeafIssues(hs)
    BY <1>1, <2>1, InWhen DEF LeafIssues
  <2>3. Severity(g) >= Severity(f)
    BY <2>1, SeverityIs
  <2> QED
    BY <1>4, <2>2, <2>3
<1>5. CASE f.id = "C.CERT.FQDN_MISMATCH"
  <2> DEFINE g == [id |-> "C.CERT.FQDN_MISMATCH", sev |-> "HIGH", at |-> 0]
  <2>1. ~LeafOf(c).covers /\ f.sev = "HIGH"
    BY <1>5, LeafSays
  <2>2. g \in LeafIssues(hs)
    BY <1>1, <2>1, InWhen DEF LeafIssues
  <2>3. Severity(g) >= Severity(f)
    BY <2>1, SeverityIs
  <2> QED
    BY <1>5, <2>2, <2>3
<1> QED
  BY <1>3, <1>4, <1>5 DEF LeafIds

\* ... and hardly more.
LEMMA OutsideIsInside ==
  ASSUME NEW c, Presents(c), NEW hs \in Handshakes(c), hs.reachable, NEW g \in LeafIssues(hs)
  PROVE  \/ \E f \in AllFindings(c) : f.id \in LeafIds /\ f.id = g.id
         \/ g.id = "C.CERT.EXPIRY" /\ hs.left = WarnDays + 1
         \/ g.id = "C.CERT.FQDN_MISMATCH" /\ c.fqdn = "none"
<1>0. HasLeaf(c)
  BY DEF Presents, HasLeaf, LeafOf
<1>1. /\ hs.leaf = LeafOf(c) /\ hs.left \in DaysLeft
      /\ ExpiryClass(hs.left) = LeafOf(c).expiry
  BY ShakenIs
<1>2. /\ hs.left \in Int /\ RemainingDays(hs.left) = hs.left - 1
      /\ ExpiryClass(hs.left) = "past" <=> hs.left < 0
      /\ ExpiryClass(hs.left) = "soon" <=> hs.left \in 0..WarnDays
  BY <1>1, ClassIs
<1>3. \/ g.id = "C.CERT.EXPIRY" /\ (RemainingDays(hs.left) < 0 \/ RemainingDays(hs.left) \in 0..WarnDays)
      \/ g.id = "C.CERT.EKU_NO_SERVERAUTH" /\ "server" \notin hs.leaf.ekus
      \/ g.id = "C.CERT.FQDN_MISMATCH" /\ ~hs.leaf.covers
  BY DEF LeafIssues, When, Each
<1>4. CASE g.id = "C.CERT.EXPIRY" /\ hs.left # WarnDays + 1
  <2>1. hs.left < 0 \/ hs.left \in 0..WarnDays
    BY <1>2, <1>3, <1>4 DEF WarnDays
  <2>2. LeafOf(c).expiry = "past" \/ LeafOf(c).expiry = "soon"
    BY <1>1, <1>2, <2>1
  <2>3. \/ [id |-> "C.CERT.EXPIRY", sev |-> "CRITICAL", at |-> 0] \in Expiry(LeafOf(c))
        \/ [id |-> "C.CERT.EXPIRY", sev |-> "MEDIUM", at |-> 0] \in Expiry(LeafOf(c))
    BY <2>2, InWhen DEF Expiry
  <2> QED
    BY <1>0, <1>4, <2>3, LeafSaid DEF LeafIds
<1>5. CASE g.id = "C.CERT.EKU_NO_SERVERAUTH"
  <2>1. [id |-> "C.CERT.EKU_NO_SERVERAUTH", sev |-> "HIGH", at |-> 0] \in Usage(LeafOf(c))
    BY <1>1, <1>3, <1>5, InWhen DEF Usage
  <2> QED
    BY <1>0, <1>5, <2>1, LeafSaid DEF LeafIds
<1>6. CASE g.id = "C.CERT.FQDN_MISMATCH" /\ c.fqdn # "none"
  <2>1. [id |-> "C.CERT.FQDN_MISMATCH", sev |-> "HIGH", at |-> 0]
          \in When(c.fqdn # "none" /\ ~LeafOf(c).covers, "C.CERT.FQDN_MISMATCH", "HIGH")
    BY <1>1, <1>3, <1>6, InWhen
  <2> QED
    BY <1>0, <1>6, <2>1, LeafSaid DEF LeafIds
<1> QED
  BY <1>3, <1>4, <1>5, <1>6

\* On the leaf, the free probe and the validator never disagree but for the
\* three differences stated (grade_endpoint).
THEOREM ToolsAgreeOnLeaf == CommandSpec => []LeafFaultsAgree
<1>1. SaidInv => LeafFaultsAgree
  <2> SUFFICES ASSUME SaidInv, Ran("probe"), out.hs.reachable
               PROVE  LeafFaultsAgree
    BY DEF LeafFaultsAgree
  <2>1. /\ Presents(Parse(file)) /\ out.hs \in Handshakes(Parse(file))
        /\ out.ours = AllFindings(Parse(file))
    BY DEF SaidInv, FindingsOf
  <2>2. \A f \in out.ours : f.id \in LeafIds =>
          \/ \E g \in LeafIssues(out.hs) : g.id = f.id /\ Severity(g) >= Severity(f)
          \/ f.id = "C.CERT.EKU_NO_SERVERAUTH" /\ out.hs.leaf.ekus = {}
    BY <2>1, InsideIsOutside
  <2>3. \A g \in LeafIssues(out.hs) :
          \/ \E f \in out.ours : f.id \in LeafIds /\ f.id = g.id
          \/ g.id = "C.CERT.EXPIRY" /\ out.hs.left = WarnDays + 1
          \/ g.id = "C.CERT.FQDN_MISMATCH" /\ Parse(file).fqdn = "none"
    BY <2>1, OutsideIsInside
  <2>4. \A g : g \in Issues(out.hs) /\ g.id \in LeafIds <=> g \in LeafIssues(out.hs)
    BY IssueNames
  <2> QED
    BY <2>2, <2>3, <2>4 DEF LeafFaultsAgree, Ids
<1> QED
  BY <1>1, SaidIsComputed, PTL

\* A grade of A or B: nothing the probe can see of the leaf makes calls die at
\* TLS (grade_endpoint).
THEOREM GoodGradesLive == CommandSpec => []PassingEdgeLives
<1>1. SaidInv => PassingEdgeLives
  <2> SUFFICES ASSUME SaidInv, Ran("probe"), out.grade \in {"A", "B"},
                      NEW f \in out.ours, Breaks(f, 1)
               PROVE  f.id \in UnseenByProbe
    BY DEF PassingEdgeLives, Breaking
  <2> DEFINE c == Parse(file)
  <2>1. /\ Presents(c) /\ out.hs \in Handshakes(c) /\ out.ours = AllFindings(c)
        /\ out.grade = Grade(out.hs)
    BY DEF SaidInv, FindingsOf
  <2>2. /\ out.hs.reachable
        /\ \A g \in Issues(out.hs) : g.sev # "CRITICAL" /\ g.sev # "HIGH"
    BY <2>1 DEF Grade, Worst
  <2>3. f.id \in TlsHardStop \/ (f.id = "C.CERT.EXPIRY" /\ f.sev = "CRITICAL")
    BY DEF Breaks, HardStops, MediaHardStop, SipHardStop, SdpHardStop
  <2>4. HasLeaf(c)
    BY <2>1 DEF Presents, HasLeaf, LeafOf
  <2>5. f.id # "C.TLS.NO_CONTEXT" /\ f.id # "C.CERT.MISSING"
    BY <2>1, <2>4, CaSays DEF HasLeaf
  <2>6. f.id \in LeafIds => (f.id = "C.CERT.EXPIRY" /\ f.sev # "CRITICAL") \/ f.id = "C.CERT.EKU_NO_SERVERAUTH"
    <3> SUFFICES ASSUME f.id = "C.CERT.FQDN_MISMATCH" \/ (f.id = "C.CERT.EXPIRY" /\ f.sev = "CRITICAL")
                 PROVE  FALSE
      BY DEF LeafIds
    <3>1. f.id \in LeafIds /\ f.sev \in {"HIGH", "CRITICAL"}
      BY <2>1, LeafSays DEF LeafIds
    <3>2. PICK g \in LeafIssues(out.hs) : Severity(g) >= Severity(f)
      BY <2>1, <2>2, <3>1, InsideIsOutside
    <3>3. g \in Issues(out.hs)
      BY <2>2, IssueNames
    <3>4. g.sev \in {"HIGH", "CRITICAL", "MEDIUM"}
      BY DEF LeafIssues, When, Each
    <3> QED
      BY <2>2, <3>1, <3>2, <3>3, <3>4, SeverityIs
  <2> QED
    BY <2>3, <2>5, <2>6 DEF TlsHardStop, UnseenByProbe, LeafIds
<1> QED
  BY <1>1, SaidIsComputed, PTL
------------------------------------------------------------------------------
(* The fleet command and the two reports. *)

\* What breaks the handshake is severe and in everybody's table, but for the one
\* lenient stop.
LEMMA TlsStopsShow ==
  ASSUME NEW c, NEW f \in AllFindings(c), Breaks(f, 1), f.id # "C.CERT.UNTRUSTED_ANCHOR"
  PROVE  Severe(f) /\ StartsWith(f, CaPrefixes) /\ StartsWith(f, ExecPrefixes)
<1>1. f.id \in TlsHardStop \/ (f.id = "C.CERT.EXPIRY" /\ f.sev = "CRITICAL")
  BY DEF Breaks, HardStops, MediaHardStop, SipHardStop, SdpHardStop
<1>2. Severe(f)
  <2>1. Fatal(f)
    BY DEF Fatal
  <2>2. f.id \notin LenientStops
    BY <1>1 DEF LenientStops, TlsHardStop
  <2> QED
    BY <2>1, <2>2, AllCalibrated DEF Calibrated, Grave, Severe
<1>3. \/ f.id \in {"C.TLS.NO_CONTEXT", "C.TLS.MTLS_DISABLED", "C.TLS.CIPHER_NOT_ALLOWED"}
      \/ f.id \in {"C.CERT.MISSING", "C.CERT.FQDN_MISMATCH", "C.CERT.SELF_SIGNED",
                   "C.CERT.CHAIN_INVALID", "C.CERT.UNTRUSTED_ANCHOR", "C.CERT.EXPIRY",
                   "C.CERT.EKU_NO_SERVERAUTH"}
      \/ f.id = "C.CA.ROOT_MISSING"
  BY <1>1 DEF TlsHardStop
<1>4. StartsWith(f, CaPrefixes)
  BY <1>3, PrefixAssumption DEF StartsWith, CaPrefixes
<1>5. StartsWith(f, ExecPrefixes)
  BY <1>3, PrefixAssumption DEF StartsWith, ExecPrefixes
<1> QED
  BY <1>2, <1>4, <1>5

\* "Ready" by either report: the handshake completes (validate_one, _not_ready).
THEOREM ReadyMeansConnected == CommandSpec => []ReadyConnects
<1>1. SaidInv => ReadyConnects
  <2> SUFFICES ASSUME SaidInv, Ran("fleet"), NEW f \in DOMAIN out.rows,
                      out.rows[f].ready \/ ~NotReady(out.rows[f].findings),
                      NEW x \in out.rows[f].findings, Breaks(x, 1),
                      x.id # "C.CERT.UNTRUSTED_ANCHOR"
               PROVE  FALSE
    BY DEF ReadyConnects, Breaking
  <2>1. out.rows[f] = FleetRow(f)
    BY DEF SaidInv, RowsOf
  <2>2. /\ out.rows[f].findings = AllFindings(Parse(f))
        /\ out.rows[f].ready = CaReady(AllFindings(Parse(f)))
    BY <2>1 DEF FleetRow, FindingsOf
  <2>3. Severe(x) /\ StartsWith(x, CaPrefixes) /\ StartsWith(x, ExecPrefixes)
    BY <2>2, TlsStopsShow
  <2> QED
    BY <2>2, <2>3 DEF CaReady, Blockers, NotReady
<1> QED
  BY <1>1, SaidIsComputed, PTL

\* Tenants that present one certificate share its faults, and are all listed as
\* at risk (_tenant_analysis).
THEOREM FateIsShared == CommandSpec => []SharedFate
<1>1. SaidInv => SharedFate
  <2> SUFFICES ASSUME SaidInv, Ran("fleet"), NEW f \in DOMAIN out.rows, NEW g \in DOMAIN out.rows,
                      f # g, Unnamed \notin {out.rows[f].cn, out.rows[g].cn},
                      LeafOf(Parse(f)) = LeafOf(Parse(g)),
                      NEW x \in out.rows[f].findings, Severe(x),
                      x.id \in {"C.CERT.EXPIRY", "C.CERT.EKU_NO_SERVERAUTH"}
               PROVE  ~out.rows[g].ready /\ {f, g} \subseteq out.atRisk
    BY DEF SharedFate, Ids
  <2>1. /\ out.rows[f] = FleetRow(f) /\ out.rows[g] = FleetRow(g)
        /\ out.atRisk = AtCascadeRisk(out.rows)
    BY DEF SaidInv, RowsOf
  <2>2. /\ out.rows[f].cn = CertName(Parse(f)) /\ out.rows[g].cn = CertName(Parse(g))
        /\ out.rows[f].findings = AllFindings(Parse(f))
        /\ out.rows[g].ready = CaReady(AllFindings(Parse(g)))
    BY <2>1 DEF FleetRow, FindingsOf
  <2>3. /\ HasLeaf(Parse(f)) /\ HasLeaf(Parse(g))
        /\ out.rows[f].cn = Subject(LeafOf(Parse(f))) /\ out.rows[g].cn = Subject(LeafOf(Parse(g)))
    BY <2>2 DEF CertName, Presented, HasLeaf, LeafOf
  <2>4. PICK y \in AllFindings(Parse(g)) :
          Severe(y) /\ y.id \in {"C.CERT.EXPIRY", "C.CERT.EKU_NO_SERVERAUTH"}
    <3>1. \/ LeafOf(Parse(f)).expiry = "past"
          \/ "server" \notin LeafOf(Parse(f)).ekus
      BY <2>2, LeafSays DEF LeafIds, Severe
    <3>2. \/ [id |-> "C.CERT.EXPIRY", sev |-> "CRITICAL", at |-> 0] \in Expiry(LeafOf(Parse(g)))
          \/ [id |-> "C.CERT.EKU_NO_SERVERAUTH", sev |-> "HIGH", at |-> 0] \in Usage(LeafOf(Parse(g)))
      BY <3>1, InWhen DEF Expiry, Usage
    <3>3. Expiry(LeafOf(Parse(g))) \cup Usage(LeafOf(Parse(g))) \subseteq AllFindings(Parse(g))
      BY <2>3, LeafSaid
    <3> QED
      BY <3>2, <3>3 DEF Severe
  <2>5. StartsWith(y, CaPrefixes)
    BY <2>4, PrefixAssumption DEF StartsWith, CaPrefixes
  <2>6. ~out.rows[g].ready
    BY <2>2, <2>4, <2>5 DEF CaReady, Blockers
  <2>7. out.rows[f].cn = out.rows[g].cn
    BY <2>3
  <2> QED
    BY <2>1, <2>6, <2>7 DEF AtCascadeRisk, Sharing
<1> QED
  BY <1>1, SaidIsComputed, PTL

\* A call that dies, dies of a finding.
LEMMA DiesOf ==
  ASSUME NEW fs, Outcome(fs) \in Dead
  PROVE  DiesAt(fs) \in 1..4 /\ \E f \in fs : Breaks(f, DiesAt(fs))
<1>1. \E i \in 1..4 : Broken(fs, i)
  BY DeadByFinding DEF Broken, Fatal
<1>2. \E i \in 1..4 : Broken(fs, i) /\ \A j \in 1..(i-1) : ~Broken(fs, j)
  BY <1>1
<1>3. DiesAt(fs) \in 1..4 /\ Broken(fs, DiesAt(fs))
  BY <1>1, <1>2 DEF DiesAt
<1> QED
  BY <1>3 DEF Broken

\* A framework whose controls show no severe finding hides no call that dies in
\* TLS or, but for FINRA's, in the media (compliance.py).
THEOREM ReportsShowOutages == CommandSpec => []ReportShowsOutage
<1>1. Faithful => ReportShowsOutage
  <2> SUFFICES ASSUME Faithful, Judged, outcome \in Dead, NEW fw \in DOMAIN Families,
                      DiesAt(findings) \notin {2, 3}, ~(fw = "finra" /\ DiesAt(findings) = 4),
                      "C.CERT.UNTRUSTED_ANCHOR" \notin Ids(findings)
               PROVE  \E f \in OpenFindings(findings, fw) : Severe(f)
    BY DEF ReportShowsOutage
  <2>1. findings = AllFindings(config) /\ Outcome(findings) \in Dead
    BY DEF Faithful, FindingsInv, OutcomeInv
  <2>2. PICK f \in findings : Breaks(f, DiesAt(findings))
    BY <2>1, DiesOf
  <2>3. DiesAt(findings) = 1 \/ DiesAt(findings) = 4
    BY <2>1, DiesOf
  <2>4. fw \in {"mifid2", "finra", "cjis", "hipaa"}
    BY DEF Families
  <2>5. CASE DiesAt(findings) = 1
    <3>1. Severe(f) /\ StartsWith(f, CaPrefixes)
      BY <2>1, <2>2, <2>5, TlsStopsShow DEF Ids
    <3>2. StartsWith(f, Crypto) /\ Crypto \in Families[fw]
      BY <2>4, <3>1 DEF Families, Crypto, CaPrefixes
    <3> QED
      BY <3>1, <3>2 DEF OpenFindings
  <2>6. CASE DiesAt(findings) = 4
    <3>1. f.id \in MediaHardStop
      BY <2>2, <2>6 DEF Breaks, HardStops, TlsHardStop, SipHardStop, SdpHardStop
    <3>2. Severe(f)
      <4>1. Fatal(f) /\ f.id \notin LenientStops
        BY <2>2, <2>6, <3>1 DEF Fatal, LenientStops, MediaHardStop
      <4> QED
        BY <2>1, <4>1, AllCalibrated DEF Calibrated, Grave, Severe
    <3>3. CASE f.id = "C.SRTP.DISABLED"
      <4>1. StartsWith(f, Crypto) /\ Crypto \in Families[fw]
        BY <2>4, <3>3, PrefixAssumption DEF Families, Crypto, StartsWith
      <4> QED
        BY <3>2, <4>1 DEF OpenFindings
    <3>4. CASE f.id \in {"D.NAT.PRIVATE_ADVERTISED", "D.NAT.NO_PUBLIC_IP"}
      <4>1. StartsWith(f, {"D."}) /\ StartsWith(f, {"D.", "F."})
        BY <3>4, PrefixAssumption DEF StartsWith
      <4>2. {"D."} \in Families[fw] \/ {"D.", "F."} \in Families[fw]
        BY <2>4, <2>6 DEF Families
      <4> QED
        BY <3>2, <4>1, <4>2 DEF OpenFindings
    <3> QED
      BY <3>1, <3>3, <3>4 DEF MediaHardStop
  <2> QED
    BY <2>3, <2>5, <2>6
<1> QED
  BY <1>1, RunsFaithful, ValidateUndisturbed, PTL
------------------------------------------------------------------------------
(* The diff of two nodes. *)

LEMMA TeamsParts ==
  ASSUME NEW c \in NormalizedConfig, HasTeams(c)
  PROVE  Teams(c).srtp \in Tri /\ (Teams(c).tls # NoContext => Teams(c).tls.mtls \in Tri)
<1>1. Teams(c).srtp \in Tri /\ Teams(c).tls \in TlsContext \cup {NoContext}
  BY TeamsTyped DEF SipInterface
<1> QED
  BY <1>1 DEF TlsContext

LEMMA Nothing == ASSUME NEW cond, NEW id, NEW sev, When(cond, id, sev) = {} PROVE ~cond
BY InWhen

\* What an empty comparison comes to.
LEMMA NoDrift ==
  ASSUME NEW a, NEW s, HaDiff(a, s) = {}
  PROVE  /\ HasTeams(a) /\ HasTeams(s)
         /\ Teams(a).tls # NoContext /\ Teams(s).tls # NoContext
         /\ Teams(a).tls.introspectable /\ Teams(s).tls.introspectable
         /\ Teams(a).tls.roots = Teams(s).tls.roots
         /\ Teams(a).transport = Teams(s).transport
         /\ Truthy(Teams(a).tls.mtls) = Truthy(Teams(s).tls.mtls)
         /\ Truthy(Teams(a).srtp) = Truthy(Teams(s).srtp)
         /\ Teams(a).codecs = Teams(s).codecs
<1>1. HasTeams(a) /\ HasTeams(s) /\ TeamsDrift(Teams(a), Teams(s)) = {}
  BY Nothing DEF HaDiff
<1>2. TrustDrift(Teams(a), Teams(s)) = {}
  BY <1>1 DEF TeamsDrift
<1>3. Introspectable(Teams(a)) /\ Introspectable(Teams(s)) /\ Teams(a).tls.roots = Teams(s).tls.roots
  BY <1>2, Nothing DEF TrustDrift
<1>4. /\ When(Teams(a).transport # Teams(s).transport, "HA.DRIFT.TRANSPORT", "HIGH") = {}
      /\ When(Mtls(Teams(a)) # Mtls(Teams(s)), "HA.DRIFT.MTLS", "HIGH") = {}
      /\ When(Truthy(Teams(a).srtp) # Truthy(Teams(s).srtp), "HA.DRIFT.SRTP", "HIGH") = {}
      /\ When(Teams(a).codecs # Teams(s).codecs, "HA.DRIFT.CODECS", "MEDIUM") = {}
  BY <1>1 DEF TeamsDrift
<1>5. /\ Teams(a).transport = Teams(s).transport
      /\ Mtls(Teams(a)) = Mtls(Teams(s))
      /\ Truthy(Teams(a).srtp) = Truthy(Teams(s).srtp)
      /\ Teams(a).codecs = Teams(s).codecs
  BY <1>4, Nothing
<1> QED
  BY <1>1, <1>3, <1>5 DEF Introspectable, Mtls, Truthy

\* The settings the diff compares: what stops a call on the standby stops it on
\* the active node, or counted as off there.
LEMMA DriftlessStop ==
  ASSUME NEW a \in NormalizedConfig, NEW s \in NormalizedConfig, HaDiff(a, s) = {},
         NEW f \in AllFindings(s), Fatal(f), f.id \notin NotCompared
  PROVE  (\E g \in AllFindings(a) : Fatal(g)) \/ UnknownAsOff(Teams(a), Teams(s))
<1> DEFINE at == Teams(a)
           st == Teams(s)
<1>0. /\ HasTeams(a) /\ HasTeams(s) /\ at.tls # NoContext /\ st.tls # NoContext
      /\ at.tls.introspectable /\ st.tls.introspectable /\ at.tls.roots = st.tls.roots
      /\ at.transport = st.transport /\ Truthy(at.tls.mtls) = Truthy(st.tls.mtls)
      /\ Truthy(at.srtp) = Truthy(st.srtp) /\ at.codecs = st.codecs
  BY NoDrift
<1>1. f.id \in {"C.CA.ROOT_MISSING", "C.TLS.MTLS_DISABLED", "C.SRTP.DISABLED", "C.TLS.NO_CONTEXT",
                "B.SIP.TRANSPORT", "B.IFACE.NO_TEAMS", "A.STRUCT.NO_SIP_INTERFACES",
                "E.CODEC.NO_TEAMS_OVERLAP", "E.CODEC.NONE_OFFERED"}
  BY StopsAre DEF TlsHardStop, SipHardStop, SdpHardStop, MediaHardStop, NotCompared
<1>2. at.srtp \in Tri /\ st.srtp \in Tri /\ at.tls.mtls \in Tri /\ st.tls.mtls \in Tri
  BY <1>0, TeamsParts
<1>3. /\ Context(a, at, at.tls) \subseteq AllFindings(a)
      /\ TeamsInterop(a, at) \subseteq AllFindings(a)
      /\ TeamsCodec(at) \subseteq AllFindings(a)
  BY <1>0 DEF AllFindings, CaCompliance, Interop, Codec
<1>4. f.id \in ContextIds => f \in Context(s, st, st.tls)
  BY CaSays
<1>5. CASE f.id = "C.CA.ROOT_MISSING"
  <2>1. f \in TrustStore(st.tls)
    <3>1. f \notin LeafFindings(st.tls, s, Demanded(st.tls))
      BY <1>5, LeafFindingNames DEF CertIds, ChainIds
    <3> QED
      BY <1>4, <1>5, <3>1, WhenIs DEF Context, MediaTrust, TlsPolicy, Platform, ContextIds
  <2>2. Missing(st.tls) # {}
    BY <1>5, <2>1 DEF TrustStore, When, Each
  <2>3. Missing(at.tls) # {}
    BY <1>0, <2>2 DEF Missing, NotFound, Demanded, Unavailable
  <2>4. [id |-> "C.CA.ROOT_MISSING", sev |-> "CRITICAL", at |-> 0] \in TrustStore(at.tls)
    BY <2>3, InWhen DEF TrustStore
  <2> QED
    BY <1>3, <2>4, StopsAre DEF Context, TlsHardStop
<1>6. CASE f.id = "C.TLS.MTLS_DISABLED"
  <2>1. st.tls.mtls = "off"
    <3>1. f \notin LeafFindings(st.tls, s, Demanded(st.tls))
      BY <1>6, LeafFindingNames DEF CertIds, ChainIds
    <3>2. f \in When(st.tls.mtls = "off", "C.TLS.MTLS_DISABLED", "HIGH")
      BY <1>4, <1>6, <3>1, WhenIs DEF Context, MediaTrust, TlsPolicy, TrustStore, Platform, ContextIds
    <3> QED
      BY <3>2, InWhen
  <2>2. at.tls.mtls = "?" \/ at.tls.mtls = "off"
    BY <1>0, <1>2, <2>1 DEF Truthy, Tri
  <2>3. at.tls.mtls = "off" => [id |-> "C.TLS.MTLS_DISABLED", sev |-> "HIGH", at |-> 0] \in Context(a, at, at.tls)
    BY InWhen DEF Context
  <2> QED
    BY <1>3, <2>1, <2>2, <2>3, StopsAre DEF UnknownAsOff, TlsHardStop
<1>7. CASE f.id = "C.SRTP.DISABLED"
  <2>1. st.srtp = "off"
    <3>1. f \notin LeafFindings(st.tls, s, Demanded(st.tls))
      BY <1>7, LeafFindingNames DEF CertIds, ChainIds
    <3>2. f \in MediaTrust(st, st.tls)
      BY <1>4, <1>7, <3>1, WhenIs DEF Context, TlsPolicy, TrustStore, Platform, ContextIds
    <3> QED
      BY <1>7, <3>2 DEF MediaTrust, When, Each
  <2>2. at.srtp = "?" \/ at.srtp = "off"
    BY <1>0, <1>2, <2>1 DEF Truthy, Tri
  <2>3. at.srtp = "off" => [id |-> "C.SRTP.DISABLED", sev |-> "HIGH", at |-> 0] \in Context(a, at, at.tls)
    BY InWhen DEF Context, MediaTrust
  <2> QED
    BY <1>3, <2>1, <2>2, <2>3, StopsAre DEF UnknownAsOff, MediaHardStop
<1>8. CASE f.id = "C.TLS.NO_CONTEXT"
  BY <1>0, <1>8, CaSays
<1>9. CASE f.id \in {"B.SIP.TRANSPORT", "B.IFACE.NO_TEAMS"}
  <2>1. f \in Interop(s)
    BY <1>9, WhoFound DEF InteropIds
  <2>2. f \in When(s.fqdn = "ip", "B.SIP.IDENTITY_IS_IP", "HIGH") \/ f \in TeamsInterop(s, st)
    BY <1>0, <2>1 DEF Interop
  <2>3. f \in When(st.transport # RequiredTransport, "B.SIP.TRANSPORT", "HIGH")
    BY <1>9, <2>2, WhenIs DEF TeamsInterop
  <2>4. at.transport # RequiredTransport
    BY <1>0, <2>3, InWhen
  <2>5. [id |-> "B.SIP.TRANSPORT", sev |-> "HIGH", at |-> 0] \in TeamsInterop(a, at)
    BY <2>4, InWhen DEF TeamsInterop
  <2> QED
    BY <1>3, <2>5, StopsAre DEF SipHardStop
<1>10. CASE f.id = "A.STRUCT.NO_SIP_INTERFACES"
  <2>1. f \in SyntaxSemantic(s)
    BY <1>10, WhoFound DEF SyntaxIds
  <2>2. f \in When(DOMAIN s.ifaces = {}, "A.STRUCT.NO_SIP_INTERFACES", "HIGH")
    BY <1>10, <2>1, WhenIs, EachIs DEF SyntaxSemantic
  <2> QED
    BY <1>0, <2>2, InWhen DEF HasTeams
<1>11. CASE f.id \in {"E.CODEC.NO_TEAMS_OVERLAP", "E.CODEC.NONE_OFFERED"}
  <2>1. f \in Codec(s)
    BY <1>11, WhoFound DEF CodecIds
  <2>2. f \in TeamsCodec(st)
    BY <1>0, <1>11, <2>1, WhenIs DEF Codec
  <2>3. /\ CarriesCodecs(st)
        /\ st.codecs = {} \/ st.codecs \cap (TeamsCodecs \cup {"AMR-WB"}) = {}
    BY <1>11, <2>2 DEF TeamsCodec, When, Each
  <2>4. CASE at.carried
    <3>1. \/ [id |-> "E.CODEC.NONE_OFFERED", sev |-> "HIGH", at |-> 0] \in TeamsCodec(at)
          \/ [id |-> "E.CODEC.NO_TEAMS_OVERLAP", sev |-> "HIGH", at |-> 0] \in TeamsCodec(at)
      BY <1>0, <2>3, <2>4, InWhen DEF TeamsCodec, CarriesCodecs
    <3> QED
      BY <1>3, <3>1, StopsAre DEF SdpHardStop
  <2>5. CASE ~at.carried
    BY <2>3, <2>5 DEF UnknownAsOff, CarriesCodecs
  <2> QED
    BY <2>4, <2>5
<1> QED
  BY <1>1, <1>5, <1>6, <1>7, <1>8, <1>9, <1>10, <1>11

\* "No drift": the standby takes over the calls of the active node (ha_diff).
THEOREM DriftlessFailover == CommandSpec => []NoDriftNoOutage
<1>1. file \in Files /\ SaidInv => NoDriftNoOutage
  <2> SUFFICES ASSUME file \in Files, SaidInv, Ran("diff"), out.exit = 0, out.drift = {},
                      ~CallDies(out.ours), CallDies(out.theirs),
                      ~ \E i \in 1..4 : Breaking(out.theirs, i) \cap NotCompared # {}
               PROVE  UnknownAsOff(Teams(Parse(file)), Teams(Parse(out.other)))
    BY DEF NoDriftNoOutage
  <2>1. PICK other \in Peers(file) :
          /\ Unparsable \notin {Parse(file), Parse(other)}
          /\ out.other = other /\ HaDiff(Parse(file), Parse(other)) = {}
          /\ out.ours = AllFindings(Parse(file)) /\ out.theirs = AllFindings(Parse(other))
    BY DEF SaidInv, Compared, FindingsOf
  <2>2. Parse(file) \in NormalizedConfig /\ Parse(other) \in NormalizedConfig
    BY <2>1, ParseAssumption, CommandAssumption
  <2>3. PICK f \in AllFindings(Parse(other)) : Fatal(f)
    BY <2>1, DeadByFinding DEF CallDies
  <2>4. f.id \notin NotCompared
    BY <2>1, <2>3 DEF Fatal, Breaking
  <2>5. ~ \E g \in AllFindings(Parse(file)) : Fatal(g)
    BY <2>1, DeadByFinding DEF CallDies
  <2> QED
    BY <2>1, <2>2, <2>3, <2>4, <2>5, DriftlessStop
<1> QED
  BY <1>1, SaidIsComputed, FilesKnown, PTL
------------------------------------------------------------------------------
(* The reading of a certificate file. *)

\* Without two signers of one name, the walk came through all that the leaf's
\* signatures lead to.
LEMMA AllVisited ==
  ASSUME ChainInv, ending # "none", NEW V, Visited(V),
         \A i, j \in Reached : bundle[i].subject = bundle[j].subject => i = j
  PROVE  Reached \subseteq V
<1>0. pass # "closed" /\ ChainTypeOK /\ V \subseteq DOMAIN bundle
  BY DEF ChainInv, EndInv, Visited, Reached
<1>1. ASSUME NEW i \in V, NEW j \in DOMAIN bundle, IssuedBy(bundle[i], bundle[j])
      PROVE  j \in V
  <2>1. i \in Reached /\ j \in Reached /\ bundle[i].issuer = bundle[j].subject
    BY <1>0, <1>1, ReachedCloses DEF Visited, IssuedBy
  <2>2. CASE bundle[i] # cur
    <3>1. PICK n \in V : IssuedBy(bundle[i], bundle[n])
      BY <2>2 DEF Visited
    <3>2. n \in Reached /\ bundle[n].subject = bundle[j].subject
      BY <2>1, <3>1 DEF Visited, IssuedBy
    <3> QED
      BY <2>1, <3>1, <3>2
  <2>3. CASE bundle[i] = cur /\ SelfIssued(cur)
    <3>1. bundle[i].subject = bundle[j].subject
      BY <2>1, <2>3 DEF SelfIssued
    <3> QED
      BY <2>1, <3>1
  <2>4. CASE bundle[i] = cur /\ ~SelfIssued(cur)
    <3>1. j \in Signers(cur) /\ j \in Candidates(cur)
      BY <1>1, <2>1, <2>4 DEF Signers, Candidates
    <3>2. ending = "noRoot" /\ DeadEnd(cur)
      BY <1>0, <2>4, <3>1 DEF ChainInv, EndInv, SelfSigned, ChainTypeOK, Endings
    <3>3. cur.issuer \in seen
      BY <3>1, <3>2 DEF DeadEnd
    <3>4. PICK n \in V : bundle[n].subject = cur.issuer
      BY <3>3 DEF Visited
    <3>5. n \in Reached /\ bundle[n].subject = bundle[j].subject
      BY <2>1, <2>4, <3>4 DEF Visited
    <3> QED
      BY <2>1, <3>4, <3>5
  <2> QED
    BY <2>2, <2>3, <2>4
<1>2. V \in Climbs
  BY <1>0, <1>1 DEF Climbs, Climbable, Visited
<1> QED
  BY <1>2 DEF Reached

\* What the chain is judged by.
LEMMA AnchoredIs ==
  ASSUME NEW k, NEW required
  PROVE  "C.CERT.CHAIN_ANCHORED" \in Ids(Chain(k, required)) <=>
           k.chain \notin ChainFaults /\ (required = {} \/ k.chain \in required)
<1> DEFINE anchored == [id |-> "C.CERT.CHAIN_ANCHORED", sev |-> "INFO", at |-> 0]
<1>1. ASSUME NEW f \in Chain(k, required), f.id = "C.CERT.CHAIN_ANCHORED"
      PROVE  k.chain \notin ChainFaults /\ (required = {} \/ k.chain \in required)
  <2>1. f \in When(k.chain \notin ChainFaults /\ (required = {} \/ k.chain \in required),
                   "C.CERT.CHAIN_ANCHORED", "INFO")
    BY <1>1, WhenIs DEF Chain
  <2> QED
    BY <2>1, InWhen
<1>2. ASSUME k.chain \notin ChainFaults, required = {} \/ k.chain \in required
      PROVE  anchored \in Chain(k, required)
  BY <1>2, InWhen DEF Chain
<1>3. anchored.id = "C.CERT.CHAIN_ANCHORED"
  OBVIOUS
<1> HIDE DEF anchored
<1> QED
  BY <1>1, <1>2, <1>3 DEF Ids

LEMMA ChainOfIs ==
  ASSUME ChainInv, pass = "judged"
  PROVE  /\ ChainOf \notin ChainFaults <=>
              ending = "root" /\ ~(SelfIssued(bundle[1]) /\ Len(bundle) = 1)
         /\ ChainOf \notin ChainFaults => ChainOf = Fingerprint(cur)
<1>1. ending \in {"root", "badRoot", "badSignature", "noRoot"}
  BY DEF ChainInv, EndInv, ChainTypeOK, Endings
<1>2. cur \in Cert
  BY DEF ChainInv, ChainTypeOK
<1>3. Fingerprint(cur) \notin ChainFaults
  BY <1>2, CommandAssumption
<1>4. {"selfSigned", "badSignature", "noRoot"} = ChainFaults
  BY DEF ChainFaults
<1>5. CASE SelfIssued(bundle[1]) /\ Len(bundle) = 1
  BY <1>4, <1>5 DEF ChainOf
<1>6. CASE ~(SelfIssued(bundle[1]) /\ Len(bundle) = 1) /\ ending = "root"
  BY <1>3, <1>6 DEF ChainOf
<1>7. CASE ~(SelfIssued(bundle[1]) /\ Len(bundle) = 1) /\ ending # "root"
  BY <1>1, <1>4, <1>7 DEF ChainOf
<1> QED
  BY <1>5, <1>6, <1>7

LEMMA Several == \A n \in Nat : n > 0 => n = 1 \/ n > 1
OBVIOUS

LEMMA AnchorIs ==
  ASSUME ChainInv, pass = "judged", NEW required,
         \A i, j \in Reached : bundle[i].subject = bundle[j].subject => i = j
  PROVE  ChainOf \notin ChainFaults /\ (required = {} \/ ChainOf \in required) <=>
           \E i \in Reached : AnchorsAt(i, required)
<1>1. /\ ending # "none" /\ bundle \in Seq(Cert) /\ Len(bundle) > 0
      /\ Reached \subseteq DOMAIN bundle
  BY DEF ChainInv, EndInv, ChainTypeOK, Reached
<1>2. PICK V : Visited(V)
  BY DEF ChainInv, VisitedInv
<1>3. Reached \subseteq V
  BY <1>1, <1>2, AllVisited
<1>4. ASSUME ChainOf \notin ChainFaults, required = {} \/ ChainOf \in required
      PROVE  \E i \in Reached : AnchorsAt(i, required)
  <2>1. PICK i \in V : bundle[i] = cur
    BY <1>2 DEF Visited
  <2>2. SelfSigned(bundle[i]) /\ ChainOf = Fingerprint(bundle[i])
    BY <1>4, <2>1, ChainOfIs DEF ChainInv, EndInv
  <2>3. i = 1 => Len(bundle) > 1
    <3>2. Len(bundle) \in Nat /\ Len(bundle) > 0
      BY <1>1
    <3>3. Len(bundle) = 1 \/ Len(bundle) > 1
      BY <3>2, Several, Zenon
    <3>4. i = 1 => Len(bundle) # 1
      BY <1>4, <2>2, ChainOfIs DEF SelfSigned
    <3> QED
      BY <3>3, <3>4, Zenon
  <2> QED
    BY <1>2, <1>4, <2>1, <2>2, <2>3 DEF AnchorsAt, Visited
<1>5. ASSUME NEW i \in Reached, AnchorsAt(i, required)
      PROVE  ChainOf \notin ChainFaults /\ (required = {} \/ ChainOf \in required)
  <2>1. SelfSigned(bundle[i]) /\ SelfIssued(bundle[i]) /\ i \in V
    BY <1>3, <1>5 DEF AnchorsAt, SelfSigned
  <2>2. bundle[i] = cur
    BY <1>2, <2>1 DEF Visited
  <2>3. ending = "root"
    BY <1>1, <2>1, <2>2 DEF ChainInv, EndInv, SelfSigned, ChainTypeOK, Endings
  <2>4. Len(bundle) # 1
    <3> SUFFICES ASSUME Len(bundle) = 1 PROVE FALSE
      OBVIOUS
    <3>1. i = 1
      BY <1>1
    <3> QED
      BY <1>5, <3>1 DEF AnchorsAt
  <2>5. ChainOf = Fingerprint(bundle[i]) /\ ChainOf \notin ChainFaults
    BY <2>2, <2>3, <2>4, ChainOfIs
  <2> QED
    BY <1>5, <2>5 DEF AnchorsAt
<1> QED
  BY <1>4, <1>5

\* A chain is called anchored exactly when signatures lead to a root that is
\* demanded, whatever else is in the file; one that verifies is complete
\* (_chain_complete, verify_chain, _leaf_cert).
THEOREM RootsAreRecognized == CommandSpec => []RootRecognized
<1>1. ChainInv /\ SaidInv => RootRecognized
  <2> SUFFICES ASSUME ChainInv, SaidInv, Ran("inspect") PROVE RootRecognized
    BY DEF RootRecognized
  <2> DEFINE required == Demanded(Teams(Parse(file)).tls)
  <2>1. pass = "judged" /\ out.findings = Chain([chain |-> ChainOf], required)
    BY DEF SaidInv
  <2>2. ending \in {"root", "badRoot"} => complete
    BY DEF ChainInv, TrailInv
  <2>3. "C.CERT.CHAIN_ANCHORED" \in Ids(out.findings) <=>
          ChainOf \notin ChainFaults /\ (required = {} \/ ChainOf \in required)
    BY <2>1, AnchoredIs
  <2>4. (\A i, j \in Reached : bundle[i].subject = bundle[j].subject => i = j) =>
          ("C.CERT.CHAIN_ANCHORED" \in Ids(out.findings) <=>
             \E i \in Reached : AnchorsAt(i, required))
    BY <2>1, <2>3, AnchorIs
  <2> QED
    BY <2>2, <2>4 DEF RootRecognized
<1> QED
  BY <1>1, ChainInvariant, CommandsImplement, SaidIsComputed, PTL
------------------------------------------------------------------------------
(* The access list. *)

\* A rule that is reported as shadowed is one the validator found to be so.
LEMMA ShadowIs ==
  ASSUME NEW c, NEW f \in AllFindings(c), f.id \in {"S.ACL.SHADOWED_DENY", "S.ACL.SHADOWED_PERMIT"}
  PROVE  f.at \in DOMAIN c.acls /\ Shadowed(c.acls, f.at)
<1> DEFINE rules   == DOMAIN c.acls
           permits == {i \in rules : c.acls[i].action = "permit"}
           shadows == {i \in rules : Shadowed(c.acls, i)}
<1>1. f \in AccessControl(c)
  BY WhoFound DEF AccessIds
<1>2. \/ f \in Each(shadows \cap (rules \ permits), "S.ACL.SHADOWED_DENY", "HIGH")
      \/ f \in Each(shadows \cap permits, "S.ACL.SHADOWED_PERMIT", "MEDIUM")
  BY <1>1, EachIs, WhenIs DEF AccessControl
<1>3. \A places, id, sev : f \in Each(places, id, sev) => f.at \in places
  BY DEF Each
<1> QED
  BY <1>2, <1>3

\* It decides no packet: a rule before it, of the opposite action, matches each
\* one that it matches.
LEMMA ShadowCovers ==
  ASSUME NEW acls \in Seq(AccessControlEntry), NEW i \in DOMAIN acls, Shadowed(acls, i)
  PROVE  \E j \in 1..(i-1) : /\ acls[j].action # acls[i].action
                             /\ \A p : Matches(acls[i], p) => Matches(acls[j], p)
<1>1. PICK j \in 1..(i-1) : /\ acls[j].action # acls[i].action /\ acls[j].net # "none"
                            /\ acls[j].ver = acls[i].ver
                            /\ PlaneCovers(acls[j].plane, acls[i].plane)
                            /\ NetCovers(acls[j].net, acls[i].net)
  BY DEF Shadowed
<1>2. ASSUME NEW p, Matches(acls[i], p) PROVE Matches(acls[j], p)
  BY <1>1, <1>2 DEF Matches, PlaneCovers, NetCovers
<1> QED
  BY <1>1, <1>2

LEMMA DecisionIs ==
  ASSUME NEW acls \in Seq(AccessControlEntry), NEW p
  PROVE  /\ \A i \in DOMAIN acls : Decides(acls, i, p) => Decision(acls, p) = acls[i].action
         /\ (\A i \in DOMAIN acls : ~Decides(acls, i, p)) => Decision(acls, p) = "permit"
         /\ (\E i \in DOMAIN acls : Matches(acls[i], p)) => \E i \in DOMAIN acls : Decides(acls, i, p)
<1>0. DOMAIN acls = 1..Len(acls) /\ Len(acls) \in Nat
  OBVIOUS
<1>1. ASSUME NEW i \in DOMAIN acls, NEW j \in DOMAIN acls, Decides(acls, i, p), Decides(acls, j, p)
      PROVE  i = j
  <2>1. i \in Nat /\ j \in Nat /\ i >= 1 /\ j >= 1
    BY <1>0
  <2>2. ~(i < j) /\ ~(j < i)
    BY <1>1, <2>1 DEF Decides
  <2> QED
    BY <2>1, <2>2
<1>2. ASSUME NEW i \in DOMAIN acls, Decides(acls, i, p) PROVE Decision(acls, p) = acls[i].action
  <2> DEFINE k == CHOOSE n \in DOMAIN acls : Decides(acls, n, p)
  <2>1. k \in DOMAIN acls /\ Decides(acls, k, p)
    BY <1>2
  <2>2. k = i
    BY <1>1, <1>2, <2>1
  <2> QED
    BY <1>2, <2>2 DEF Decision
<1>3. ASSUME \A i \in DOMAIN acls : ~Decides(acls, i, p) PROVE Decision(acls, p) = "permit"
  BY <1>3 DEF Decision
<1>4. ASSUME NEW i \in DOMAIN acls, Matches(acls[i], p)
      PROVE  \E k \in DOMAIN acls : Decides(acls, k, p)
  <2> DEFINE places == {n \in DOMAIN acls : Matches(acls[n], p)}
  <2>1. places \in SUBSET Nat /\ places # {}
    BY <1>0, <1>4
  <2>2. PICK k \in places : \A n \in places : k <= n
    BY <2>1, FirstPlace
  <2>3. k \in DOMAIN acls /\ k \in 1..Len(acls) /\ Matches(acls[k], p)
    BY <1>0, <2>2
  <2>4. ASSUME NEW n \in 1..(k-1) PROVE ~Matches(acls[n], p)
    <3>1. n \in DOMAIN acls /\ ~(k <= n)
      BY <1>0, <2>3
    <3> QED
      BY <2>2, <3>1
  <2> QED
    BY <2>3, <2>4 DEF Decides
<1> QED
  BY <1>2, <1>3, <1>4

LEMMA RemovedIs ==
  ASSUME NEW S, NEW s \in Seq(S), NEW i \in DOMAIN s
  PROVE  /\ RemoveAt(s, i) \in Seq(S)
         /\ Len(RemoveAt(s, i)) = Len(s) - 1
         /\ \A n \in 1..(i-1) : RemoveAt(s, i)[n] = s[n]
         /\ \A n \in i..(Len(s)-1) : RemoveAt(s, i)[n] = s[n+1]
<1> DEFINE front == SubSeq(s, 1, i-1)
           back  == SubSeq(s, i+1, Len(s))
<1>0. Len(s) \in Nat /\ DOMAIN s = 1..Len(s) /\ i \in 1..Len(s)
  OBVIOUS
<1>1. /\ front \in Seq(S) /\ Len(front) = i - 1
      /\ \A n \in 1..(i-1) : front[n] = s[n]
  <2>1. \A n \in 1..(i-1) : s[n] \in S
    BY <1>0
  <2>2. 1 \in Int /\ i-1 \in Int
    BY <1>0
  <2>3. /\ front \in Seq(S) /\ Len(front) = IF 1 <= i-1 THEN i-1-1+1 ELSE 0
        /\ \A n \in 1..(i-1-1+1) : front[n] = s[1+n-1]
    BY <2>1, <2>2, SubSeqProperties
  <2> HIDE DEF front
  <2> QED
    BY <1>0, <2>3
<1>2. /\ back \in Seq(S) /\ Len(back) = Len(s) - i
      /\ \A n \in 1..(Len(s) - i) : back[n] = s[i+n]
  <2>1. \A n \in (i+1)..Len(s) : s[n] \in S
    BY <1>0
  <2>2. i+1 \in Int /\ Len(s) \in Int
    BY <1>0
  <2>3. /\ back \in Seq(S) /\ Len(back) = IF i+1 <= Len(s) THEN Len(s)-(i+1)+1 ELSE 0
        /\ \A n \in 1..(Len(s)-(i+1)+1) : back[n] = s[i+1+n-1]
    BY <2>1, <2>2, SubSeqProperties
  <2>4. /\ Len(s) - (i+1) + 1 = Len(s) - i
        /\ Len(s) - i = IF i+1 <= Len(s) THEN Len(s) - (i+1) + 1 ELSE 0
        /\ \A n \in 1..(Len(s) - i) : i + 1 + n - 1 = i + n
    BY <1>0
  <2> HIDE DEF back
  <2>5. Len(back) = Len(s) - i
    BY <2>3, <2>4, Zenon
  <2>6. ASSUME NEW n \in 1..(Len(s) - i) PROVE back[n] = s[i+n]
    <3>1. back[n] = s[i+1+n-1]
      BY <2>3, <2>4, Zenon
    <3> QED
      BY <2>4, <3>1, Zenon
  <2> QED
    BY <2>3, <2>5, <2>6
<1>3. RemoveAt(s, i) = front \o back
  BY DEF RemoveAt
<1> HIDE DEF front, back
<1>4. /\ front \o back \in Seq(S) /\ Len(front \o back) = Len(front) + Len(back)
      /\ \A n \in 1..(Len(front) + Len(back)) :
           (front \o back)[n] = IF n <= Len(front) THEN front[n] ELSE back[n - Len(front)]
  BY <1>1, <1>2, ConcatProperties
<1>5. ASSUME NEW n \in 1..(i-1) PROVE (front \o back)[n] = s[n]
  BY <1>0, <1>1, <1>2, <1>4
<1>6. ASSUME NEW n \in i..(Len(s)-1) PROVE (front \o back)[n] = s[n+1]
  <2>1. n \in 1..(Len(front) + Len(back)) /\ ~(n <= Len(front)) /\ n - Len(front) \in 1..(Len(s) - i)
    BY <1>0, <1>1, <1>2
  <2>2. (front \o back)[n] = back[n - Len(front)] /\ back[n - Len(front)] = s[i + (n - Len(front))]
    BY <1>2, <1>4, <2>1
  <2>3. i + (n - Len(front)) = n + 1
    BY <1>0, <1>1
  <2> QED
    BY <2>2, <2>3
<1>7. Len(front \o back) = Len(s) - 1
  BY <1>0, <1>1, <1>2, <1>4
<1> QED
  BY <1>3, <1>4, <1>5, <1>6, <1>7
\* What is left of a list decides as the list does without a rule that decides
\* nothing.
LEMMA RemovedDecides ==
  ASSUME NEW acls \in Seq(AccessControlEntry), NEW i \in DOMAIN acls, NEW p,
         \E j \in 1..(i-1) : Matches(acls[i], p) => Matches(acls[j], p)
  PROVE  Decision(RemoveAt(acls, i), p) = Decision(acls, p)
<1> DEFINE left == RemoveAt(acls, i)
<1>1. PICK j \in 1..(i-1) : Matches(acls[i], p) => Matches(acls[j], p)
  OBVIOUS
<1>2. /\ left \in Seq(AccessControlEntry)
      /\ Len(left) = Len(acls) - 1
      /\ \A n \in 1..(i-1) : left[n] = acls[n]
      /\ \A n \in i..(Len(acls)-1) : left[n] = acls[n+1]
  BY RemovedIs
<1> HIDE DEF left
<1>3. /\ Len(acls) \in Nat /\ DOMAIN acls = 1..Len(acls) /\ i \in 1..Len(acls)
      /\ DOMAIN left = 1..(Len(acls) - 1)
  BY <1>2
<1>4. ASSUME NEW k \in DOMAIN acls, Decides(acls, k, p)
      PROVE  Decision(left, p) = acls[k].action
  <2>0. k \in 1..Len(acls) /\ Matches(acls[k], p) /\ \A n \in 1..(k-1) : ~Matches(acls[n], p)
    BY <1>3, <1>4 DEF Decides
  <2>1. k # i
    <3> SUFFICES ASSUME k = i PROVE FALSE
      OBVIOUS
    <3> QED
      BY <1>1, <2>0
  <2>2. CASE k < i
    <3>1. k \in 1..(i-1) /\ k \in DOMAIN left /\ \A n \in 1..(k-1) : n \in 1..(i-1)
      BY <1>3, <2>0, <2>2
    <3>2. Decides(left, k, p) /\ left[k] = acls[k]
      BY <1>2, <2>0, <3>1 DEF Decides
    <3> QED
      BY <1>2, <3>1, <3>2, DecisionIs
  <2>3. CASE i < k
    <3>1. /\ k-1 \in i..(Len(acls)-1) /\ k-1 \in DOMAIN left /\ (k-1)+1 = k
          /\ \A n \in 1..((k-1)-1) : /\ n \in 1..(i-1) \/ n \in i..(Len(acls)-1)
                                     /\ n \in 1..(k-1) /\ n+1 \in 1..(k-1)
      BY <1>3, <2>0, <2>3
    <3>2. left[k-1] = acls[k]
      BY <1>2, <3>1
    <3>3. \A n \in 1..((k-1)-1) : ~Matches(left[n], p)
      BY <1>2, <2>0, <3>1
    <3>4. Decides(left, k-1, p)
      BY <2>0, <3>2, <3>3 DEF Decides
    <3> QED
      BY <1>2, <3>1, <3>2, <3>4, DecisionIs
  <2> QED
    BY <1>3, <2>0, <2>1, <2>2, <2>3
<1>5. ASSUME NEW m \in DOMAIN left, Matches(left[m], p)
      PROVE  \E k \in DOMAIN acls : Matches(acls[k], p)
  <2>1. \/ m \in 1..(i-1) /\ m \in DOMAIN acls
        \/ m \in i..(Len(acls)-1) /\ m+1 \in DOMAIN acls
    BY <1>3
  <2> QED
    BY <1>2, <1>5, <2>1
<1>6. CASE \E k \in DOMAIN acls : Decides(acls, k, p)
  <2>1. PICK k \in DOMAIN acls : Decides(acls, k, p)
    BY <1>6
  <2>2. Decision(left, p) = acls[k].action /\ Decision(acls, p) = acls[k].action
    BY <1>4, <2>1, DecisionIs
  <2> QED
    BY <2>2 DEF left
<1>7. CASE \A k \in DOMAIN acls : ~Decides(acls, k, p)
  <2>1. \A k \in DOMAIN acls : ~Matches(acls[k], p)
    BY <1>7, DecisionIs
  <2>2. \A m \in DOMAIN left : ~Decides(left, m, p)
    BY <1>5, <2>1 DEF Decides
  <2>3. Decision(left, p) = "permit" /\ Decision(acls, p) = "permit"
    BY <1>2, <1>7, <2>2, DecisionIs
  <2> QED
    BY <2>3 DEF left
<1> QED
  BY <1>6, <1>7

LEMMA EarlierDecides ==
  ASSUME NEW acls \in Seq(AccessControlEntry), NEW i \in DOMAIN acls, NEW p,
         \E j \in 1..(i-1) : Matches(acls[j], p),
         \A j \in 1..(i-1) : Matches(acls[j], p) => acls[j].action # acls[i].action
  PROVE  Decision(acls, p) # acls[i].action
<1>0. Len(acls) \in Nat /\ DOMAIN acls = 1..Len(acls) /\ i \in 1..Len(acls)
  OBVIOUS
<1>1. PICK j \in 1..(i-1) : Matches(acls[j], p)
  OBVIOUS
<1>2. j \in DOMAIN acls
  BY <1>0
<1>3. PICK k \in DOMAIN acls : Decides(acls, k, p)
  BY <1>1, <1>2, DecisionIs
<1>4. Matches(acls[k], p) /\ \A n \in 1..(k-1) : ~Matches(acls[n], p)
  BY <1>3 DEF Decides
<1>5. k \in 1..(i-1)
  <2>1. k \in Nat /\ k >= 1 /\ j \in Nat /\ j >= 1 /\ i \in Nat /\ j < i
    BY <1>0
  <2>2. ~(j < k)
    BY <1>1, <1>4, <2>1
  <2> QED
    BY <2>1, <2>2
<1>6. Decision(acls, p) = acls[k].action /\ acls[k].action # acls[i].action
  BY <1>3, <1>4, <1>5, DecisionIs
<1> QED
  BY <1>6

\* A rule reported as shadowed can be taken out of a list of any length, and what
\* it was to decide is decided the other way (access_control.py).
THEOREM ShadowedRulesAreDead == CommandSpec => []ShadowedIsDead
<1>1. IInv => ShadowedIsDead
  <2> SUFFICES ASSUME IInv, Judged, NEW i \in Shadows, NEW p \in Traffic
               PROVE  /\ Decision(RemoveAt(config.acls, i), p) = Decision(config.acls, p)
                      /\ Matches(config.acls[i], p) /\ (\A j \in 1..(i-1) :
                            Matches(config.acls[j], p) => config.acls[j].action # config.acls[i].action)
                         => Decision(config.acls, p) # config.acls[i].action
    BY DEF ShadowedIsDead
  <2>1. findings = AllFindings(config) /\ config \in NormalizedConfig
    BY DEF IInv, Faithful, FindingsInv, ConfigInv
  <2>2. config.acls \in Seq(AccessControlEntry)
    BY <2>1 DEF NormalizedConfig
  <2>3. i \in DOMAIN config.acls /\ Shadowed(config.acls, i)
    BY <2>1, ShadowIs DEF Shadows
  <2>4. PICK j \in 1..(i-1) : \A q : Matches(config.acls[i], q) => Matches(config.acls[j], q)
    BY <2>2, <2>3, ShadowCovers
  <2>5. Decision(RemoveAt(config.acls, i), p) = Decision(config.acls, p)
    BY <2>2, <2>3, <2>4, RemovedDecides
  <2>6. ASSUME Matches(config.acls[i], p),
               \A n \in 1..(i-1) : Matches(config.acls[n], p) =>
                                     config.acls[n].action # config.acls[i].action
        PROVE  Decision(config.acls, p) # config.acls[i].action
    BY <2>2, <2>3, <2>4, <2>6, EarlierDecides
  <2> QED
    BY <2>5, <2>6
<1> QED
  BY <1>1, RunsTyped, ValidateUndisturbed, PTL
------------------------------------------------------------------------------
(* Settings that are filled in. *)

\* What was known of a leg stays as it was.
LEMMA LegKept ==
  ASSUME NEW x \in SipInterface, NEW y, CompletedLeg(x, y)
  PROVE  /\ y.name = x.name /\ y.role = x.role /\ y.transport = x.transport
         /\ y.normalized = x.normalized /\ y.dtmf = x.dtmf
         /\ x.keepalive # "?" => y.keepalive = x.keepalive
         /\ x.contact # "?" => y.contact = x.contact
         /\ x.srtp # "?" => y.srtp = x.srtp
         /\ x.interval # -1 => y.interval = x.interval
         /\ x.carried => y.carried /\ y.codecs = x.codecs
<1>1. y = [x EXCEPT !.keepalive = Or(@, y.keepalive), !.contact = Or(@, y.contact),
                   !.srtp = Or(@, y.srtp), !.interval = IF @ = -1 THEN y.interval ELSE @,
                   !.carried = @ \/ y.carried, !.codecs = IF x.carried THEN @ ELSE y.codecs,
                   !.tls = y.tls]
  BY DEF CompletedLeg
<1>2. /\ y.name = x.name /\ y.role = x.role /\ y.transport = x.transport
      /\ y.normalized = x.normalized /\ y.dtmf = x.dtmf
      /\ y.keepalive = Or(x.keepalive, y.keepalive) /\ y.contact = Or(x.contact, y.contact)
      /\ y.srtp = Or(x.srtp, y.srtp)
      /\ y.interval = (IF x.interval = -1 THEN y.interval ELSE x.interval)
      /\ y.carried = (x.carried \/ y.carried)
      /\ y.codecs = (IF x.carried THEN x.codecs ELSE y.codecs)
  BY <1>1 DEF SipInterface
<1> QED
  BY <1>2 DEF Or

LEMMA FilesKept ==
  ASSUME NEW c \in NormalizedConfig, NEW d \in NormalizedConfig, Completed(c, d)
  PROVE  /\ d.fqdn = c.fqdn /\ d.routes = c.routes /\ d.acls = c.acls
         /\ c.ios # "?" => d.ios = c.ios
         /\ c.classified # "?" => d.classified = c.classified
         /\ c.rtpCheck # "?" => d.rtpCheck = c.rtpCheck
<1>1. d = [c EXCEPT !.ios = Or(@, d.ios), !.classified = Or(@, d.classified),
                   !.rtpCheck = Or(@, d.rtpCheck), !.ifaces = d.ifaces, !.realms = d.realms]
  BY DEF Completed
<1>2. /\ d.fqdn = c.fqdn /\ d.routes = c.routes /\ d.acls = c.acls
      /\ d.ios = Or(c.ios, d.ios) /\ d.classified = Or(c.classified, d.classified)
      /\ d.rtpCheck = Or(c.rtpCheck, d.rtpCheck)
  BY <1>1 DEF NormalizedConfig
<1> QED
  BY <1>2 DEF Or

LEMMA LegsKept ==
  ASSUME NEW c \in NormalizedConfig, NEW d, Completed(c, d), NEW i \in DOMAIN c.ifaces
  PROVE  /\ CompletedLeg(c.ifaces[i], d.ifaces[i]) /\ c.ifaces[i] \in SipInterface
         /\ IsTeams(d.ifaces[i]) = IsTeams(c.ifaces[i])
         /\ IsCarrier(d.ifaces[i]) = IsCarrier(c.ifaces[i])
<1>1. CompletedLeg(c.ifaces[i], d.ifaces[i])
  BY DEF Completed
<1>2. c.ifaces \in Seq(SipInterface)
  BY DEF NormalizedConfig
<1>3. c.ifaces[i] \in SipInterface
  BY <1>2
<1>4. d.ifaces[i].role = c.ifaces[i].role
  BY <1>1, <1>3, LegKept
<1> QED
  BY <1>1, <1>3, <1>4 DEF IsTeams, IsCarrier

\* So the leg to Teams and the one to the carrier are the same legs.
LEMMA RolesKept ==
  ASSUME NEW c \in NormalizedConfig, NEW d, Completed(c, d)
  PROVE  /\ HasTeams(d) <=> HasTeams(c)
         /\ HasCarrier(d) <=> HasCarrier(c)
         /\ HasTeams(c) => /\ Teams(c) \in SipInterface /\ CompletedLeg(Teams(c), Teams(d))
                           /\ \E i \in DOMAIN c.ifaces : Teams(c) = c.ifaces[i] /\ Teams(d) = d.ifaces[i]
         /\ HasCarrier(c) => Carrier(c) \in SipInterface /\ CompletedLeg(Carrier(c), Carrier(d))
<1> DEFINE I(e) == {i \in DOMAIN e.ifaces : IsTeams(e.ifaces[i])}
           J(e) == {i \in DOMAIN e.ifaces : IsCarrier(e.ifaces[i])}
<1>1. DOMAIN d.ifaces = DOMAIN c.ifaces
  BY DEF Completed
<1>2. I(d) = I(c) /\ J(d) = J(c)
  BY <1>1, LegsKept
<1>3. /\ Teams(c) = c.ifaces[First(I(c))] /\ Teams(d) = d.ifaces[First(I(d))]
      /\ Carrier(c) = c.ifaces[First(J(c))] /\ Carrier(d) = d.ifaces[First(J(d))]
  BY DEF Teams, Carrier
<1>4. /\ HasTeams(c) <=> I(c) # {}
      /\ HasTeams(d) <=> I(d) # {}
      /\ HasCarrier(c) <=> J(c) # {}
      /\ HasCarrier(d) <=> J(d) # {}
  BY DEF HasTeams, HasCarrier
<1>5. I(c) # {} => First(I(c)) \in DOMAIN c.ifaces
  BY FirstLeg
<1>6. J(c) # {} => First(J(c)) \in DOMAIN c.ifaces
  BY FirstLeg
<1> HIDE DEF I, J
<1> QED
  BY <1>2, <1>3, <1>4, <1>5, <1>6, LegsKept

LEMMA SyntaxKept ==
  ASSUME NEW c \in NormalizedConfig, NEW d \in NormalizedConfig, Completed(c, d)
  PROVE  SyntaxSemantic(c) \subseteq SyntaxSemantic(d)
<1> DEFINE twice(e) == {e.ifaces[i].name : i \in {j \in DOMAIN e.ifaces :
                          \E k \in DOMAIN e.ifaces \ {j} : e.ifaces[k].name = e.ifaces[j].name}}
           dangling(e) == {i \in DOMAIN e.ifaces : e.ifaces[i].transport = "tls" /\ e.ifaces[i].tls = NoContext}
<1>1. DOMAIN d.ifaces = DOMAIN c.ifaces /\ d.fqdn = c.fqdn
  BY FilesKept DEF Completed
<1>2. \A i \in DOMAIN c.ifaces : /\ d.ifaces[i].name = c.ifaces[i].name
                                 /\ d.ifaces[i].transport = c.ifaces[i].transport
  BY LegsKept, LegKept
<1>3. \A i \in DOMAIN c.ifaces : (d.ifaces[i].tls = NoContext) = (c.ifaces[i].tls = NoContext)
  <2>1. \A x, y : CompletedLeg(x, y) => (y.tls = NoContext) = (x.tls = NoContext)
    BY DEF CompletedLeg
  <2> QED
    BY <2>1, LegsKept
<1>4. twice(d) = twice(c)
  BY <1>1, <1>2
<1>5. dangling(d) = dangling(c)
  BY <1>1, <1>2, <1>3
<1>6. \A e : SyntaxSemantic(e) =
        When(DOMAIN e.ifaces = {}, "A.STRUCT.NO_SIP_INTERFACES", "HIGH")
        \cup When(e.fqdn = "none", "A.SEM.MISSING_FQDN", "MEDIUM")
        \cup When(e.fqdn \in {"malformed", "ip"}, "A.SYN.FQDN_FORMAT", "MEDIUM")
        \cup Each(twice(e), "A.SEM.DUP_INTERFACE", "MEDIUM")
        \cup Each(dangling(e), "A.SEM.DANGLING_TLS", "HIGH")
  BY DEF SyntaxSemantic
<1> HIDE DEF twice, dangling
<1> QED
  BY <1>1, <1>4, <1>5, <1>6, SMTT(40)

LEMMA InteropKept ==
  ASSUME NEW c \in NormalizedConfig, NEW d \in NormalizedConfig, Completed(c, d)
  PROVE  Interop(c) \subseteq Interop(d)
<1>1. d.fqdn = c.fqdn /\ (HasTeams(d) <=> HasTeams(c)) /\ (HasCarrier(d) <=> HasCarrier(c))
  BY FilesKept, RolesKept
<1>2. ASSUME NEW f \in TeamsInterop(c, Teams(c)), HasTeams(c)
      PROVE  f \in TeamsInterop(d, Teams(d))
  <2> DEFINE t == Teams(c)
             u == Teams(d)
  <2>1. /\ u.transport = t.transport
        /\ t.keepalive # "?" => u.keepalive = t.keepalive
        /\ t.contact # "?" => u.contact = t.contact
        /\ t.interval # -1 => u.interval = t.interval
    BY <1>2, RolesKept, LegKept
  <2>2. HasCarrier(c) /\ Carrier(c).keepalive = "off" => HasCarrier(d) /\ Carrier(d).keepalive = "off"
    BY RolesKept, LegKept
  <2>3. (Bridging(c) /\ \A i \in DOMAIN c.ifaces : ~c.ifaces[i].normalized) =>
          Bridging(d) /\ \A i \in DOMAIN d.ifaces : ~d.ifaces[i].normalized
    <3>1. DOMAIN d.ifaces = DOMAIN c.ifaces
      BY DEF Completed
    <3>2. \A i \in DOMAIN c.ifaces : d.ifaces[i].normalized = c.ifaces[i].normalized
      BY LegsKept, LegKept
    <3> QED
      BY <1>1, <3>1, <3>2 DEF Bridging
  <2>4. ~IntervalOk(t.interval) => u.interval = t.interval
    BY <2>1 DEF IntervalOk
  <2> HIDE DEF t, u
  <2>5. f \in TeamsInterop(c, t)
    BY <1>2 DEF t
  <2>6. \/ f \in When(t.transport # RequiredTransport, "B.SIP.TRANSPORT", "HIGH")
        \/ f \in When(t.keepalive = "off", "B.SIP.OPTIONS_KEEPALIVE", "MEDIUM")
        \/ f \in When(~IntervalOk(t.interval), "B.SIP.OPTIONS_INTERVAL", "MEDIUM")
        \/ f \in When(t.contact = "outside" /\ c.fqdn # "none", "B.SIP.CONTACT_FQDN", "HIGH")
        \/ f \in When(HasCarrier(c) /\ Carrier(c).keepalive = "off", "B.SIP.CARRIER_NO_KEEPALIVE", "INFO")
        \/ f \in When(Bridging(c) /\ \A i \in DOMAIN c.ifaces : ~c.ifaces[i].normalized,
                     "B.SIP.NO_NORMALIZATION", "MEDIUM")
    BY <2>5 DEF TeamsInterop
  <2>7. \/ f \in When(u.transport # RequiredTransport, "B.SIP.TRANSPORT", "HIGH")
        \/ f \in When(u.keepalive = "off", "B.SIP.OPTIONS_KEEPALIVE", "MEDIUM")
        \/ f \in When(~IntervalOk(u.interval), "B.SIP.OPTIONS_INTERVAL", "MEDIUM")
        \/ f \in When(u.contact = "outside" /\ d.fqdn # "none", "B.SIP.CONTACT_FQDN", "HIGH")
        \/ f \in When(HasCarrier(d) /\ Carrier(d).keepalive = "off", "B.SIP.CARRIER_NO_KEEPALIVE", "INFO")
        \/ f \in When(Bridging(d) /\ \A i \in DOMAIN d.ifaces : ~d.ifaces[i].normalized,
                     "B.SIP.NO_NORMALIZATION", "MEDIUM")
    BY <1>1, <2>1, <2>2, <2>3, <2>4, <2>6, InWhen, ZenonT(60)
  <2>8. f \in TeamsInterop(d, u)
    BY <2>7 DEF TeamsInterop
  <2> QED
    BY <2>8 DEF u
<1> QED
  BY <1>1, <1>2 DEF Interop
LEMMA CertKept ==
  ASSUME NEW k \in Certificate, NEW l, CompletedCert(k, l)
  PROVE  /\ l.ekus = k.ekus /\ l.covers = k.covers /\ l.pem = k.pem /\ l.chain = k.chain
         /\ k.expiry # "?" => l.expiry = k.expiry
         /\ k.issuer # "?" => l.issuer = k.issuer
         /\ k.chainComplete # "?" => l.chainComplete = k.chainComplete
<1>1. l = [k EXCEPT !.expiry = Or(@, l.expiry), !.issuer = Or(@, l.issuer),
                    !.chainComplete = Or(@, l.chainComplete)]
  BY DEF CompletedCert
<1>2. /\ l.ekus = k.ekus /\ l.covers = k.covers /\ l.pem = k.pem /\ l.chain = k.chain
      /\ l.expiry = Or(k.expiry, l.expiry) /\ l.issuer = Or(k.issuer, l.issuer)
      /\ l.chainComplete = Or(k.chainComplete, l.chainComplete)
  BY <1>1 DEF Certificate
<1> QED
  BY <1>2 DEF Or

LEMMA ContextKept ==
  ASSUME NEW x \in TlsContext, NEW y, CompletedContext(x, y)
  PROVE  /\ y.roots = x.roots /\ y.introspectable = x.introspectable
         /\ x.mtls # "?" => y.mtls = x.mtls
         /\ x.minTls # "?" => y.minTls = x.minTls
         /\ x.ciphers # "?" => y.ciphers = x.ciphers
<1>1. y = [x EXCEPT !.mtls = Or(@, y.mtls), !.minTls = Or(@, y.minTls),
                   !.ciphers = Or(@, y.ciphers), !.cert = y.cert]
  BY DEF CompletedContext
<1>2. /\ y.roots = x.roots /\ y.introspectable = x.introspectable
      /\ y.mtls = Or(x.mtls, y.mtls) /\ y.minTls = Or(x.minTls, y.minTls)
      /\ y.ciphers = Or(x.ciphers, y.ciphers)
  BY <1>1 DEF TlsContext
<1> QED
  BY <1>2 DEF Or

LEMMA LeafKept ==
  ASSUME NEW k \in Certificate, NEW l, CompletedCert(k, l), NEW c, NEW d, d.fqdn = c.fqdn, NEW r
  PROVE  LeafCert(k, c, r) \subseteq LeafCert(l, d, r)
<1>0. /\ l.ekus = k.ekus /\ l.covers = k.covers /\ l.pem = k.pem /\ l.chain = k.chain
      /\ k.expiry # "?" => l.expiry = k.expiry
      /\ k.issuer # "?" => l.issuer = k.issuer
      /\ k.chainComplete # "?" => l.chainComplete = k.chainComplete
  BY CertKept
<1>1. Inspection(l) = Inspection(k) /\ Usage(l) = Usage(k) /\ Chain(l, r) = Chain(k, r)
  BY <1>0 DEF Inspection, Usage, Chain
<1>2. Expiry(k) \subseteq Expiry(l)
  BY <1>0, InWhen DEF Expiry
<1>3. /\ When(c.fqdn # "none" /\ ~k.covers, "C.CERT.FQDN_MISMATCH", "HIGH")
         \subseteq When(d.fqdn # "none" /\ ~l.covers, "C.CERT.FQDN_MISMATCH", "HIGH")
      /\ When(k.issuer = "other" /\ k.pem = "none", "C.CERT.ISSUER_PROGRAM_UNVERIFIED", "LOW")
         \subseteq When(l.issuer = "other" /\ l.pem = "none", "C.CERT.ISSUER_PROGRAM_UNVERIFIED", "LOW")
      /\ When(k.chainComplete = "off", "C.CERT.CHAIN_INCOMPLETE", "MEDIUM")
         \subseteq When(l.chainComplete = "off", "C.CERT.CHAIN_INCOMPLETE", "MEDIUM")
  BY <1>0, InWhen
<1> QED
  BY <1>0, <1>1, <1>2, <1>3 DEF LeafCert

LEMMA ContextFound ==
  ASSUME NEW x \in TlsContext, NEW y \in TlsContext, y = x \/ CompletedContext(x, y),
         NEW t, NEW u, t.srtp # "?" => u.srtp = t.srtp,
         NEW c, NEW d, d.fqdn = c.fqdn, c.ios # "?" => d.ios = c.ios,
         NEW f \in Context(c, t, x), f.id \notin Unseen
  PROVE  f \in Context(d, u, y)
<1>0. /\ y.roots = x.roots /\ y.introspectable = x.introspectable
      /\ x.mtls # "?" => y.mtls = x.mtls
      /\ x.minTls # "?" => y.minTls = x.minTls
      /\ x.ciphers # "?" => y.ciphers = x.ciphers
  BY ContextKept
<1>1. Demanded(y) = Demanded(x) /\ Missing(y) = Missing(x)
  BY <1>0 DEF Demanded, Unavailable, Missing, NotFound
<1>2. \/ f \in When(x.mtls = "off", "C.TLS.MTLS_DISABLED", "HIGH")
      \/ f \in MediaTrust(t, x) \/ f \in TlsPolicy(x) \/ f \in TrustStore(x)
      \/ f \in Platform(c) \/ f \in LeafFindings(x, c, Demanded(x))
  BY DEF Context
<1>3. CASE f \in When(x.mtls = "off", "C.TLS.MTLS_DISABLED", "HIGH")
  <2>1. f \in When(y.mtls = "off", "C.TLS.MTLS_DISABLED", "HIGH")
    BY <1>0, <1>3, InWhen
  <2> QED
    BY <2>1 DEF Context
<1>4. CASE f \in MediaTrust(t, x)
  <2>1. f \in When(t.srtp = "off", "C.SRTP.DISABLED", "HIGH")
    BY <1>4, WhenIs DEF MediaTrust, Unseen
  <2>2. f \in When(u.srtp = "off", "C.SRTP.DISABLED", "HIGH")
    BY <2>1, InWhen
  <2> QED
    BY <2>2 DEF Context, MediaTrust
<1>5. CASE f \in TlsPolicy(x)
  <2>1. \/ f \in When(x.minTls \in {"1.0", "1.1"}, "C.TLS.WEAK_VERSION", "HIGH")
        \/ f \in When(x.ciphers = "foreign", "C.TLS.CIPHER_NOT_ALLOWED", "CRITICAL")
    BY <1>5 DEF TlsPolicy
  <2>2. /\ x.minTls \in {"1.0", "1.1"} => y.minTls \in {"1.0", "1.1"}
        /\ x.ciphers = "foreign" => y.ciphers = "foreign"
    BY <1>0
  <2>3. \/ f \in When(y.minTls \in {"1.0", "1.1"}, "C.TLS.WEAK_VERSION", "HIGH")
        \/ f \in When(y.ciphers = "foreign", "C.TLS.CIPHER_NOT_ALLOWED", "CRITICAL")
    BY <2>1, <2>2, InWhen
  <2> QED
    BY <2>3 DEF Context, TlsPolicy
<1>6. CASE f \in TrustStore(x)
  <2>1. f \in When(Missing(x) # {}, "C.CA.ROOT_MISSING", "CRITICAL")
    BY <1>6, WhenIs DEF TrustStore, Unseen
  <2>2. f \in When(Missing(y) # {}, "C.CA.ROOT_MISSING", "CRITICAL")
    BY <1>1, <2>1
  <2> QED
    BY <2>2 DEF Context, TrustStore
<1>7. CASE f \in Platform(c)
  <2>1. \/ f \in When(c.ios = "old", "C.PLATFORM.IOSXE_EKU_FLOOR", "LOW")
        \/ f \in When(c.ios = "oldIsr4k", "C.PLATFORM.IOSXE_EKU_FLOOR", "MEDIUM")
    BY <1>7 DEF Platform
  <2>2. \/ f \in When(d.ios = "old", "C.PLATFORM.IOSXE_EKU_FLOOR", "LOW")
        \/ f \in When(d.ios = "oldIsr4k", "C.PLATFORM.IOSXE_EKU_FLOOR", "MEDIUM")
    BY <2>1, InWhen
  <2> QED
    BY <2>2 DEF Context, Platform
<1>8. CASE f \in LeafFindings(x, c, Demanded(x))
  <2>1. CASE x.cert = NoCert
    <3>1. f \in When(x.introspectable, "C.CERT.MISSING", "CRITICAL")
      BY <1>8, <2>1, WhenIs DEF LeafFindings, Unseen
    <3>2. x.introspectable
      BY <3>1, InWhen
    <3>3. y.cert = NoCert
      BY <2>1, <3>2 DEF CompletedContext
    <3>4. f \in LeafFindings(y, d, Demanded(y))
      BY <1>0, <3>1, <3>3 DEF LeafFindings
    <3> QED
      BY <3>4 DEF Context
  <2>2. CASE x.cert # NoCert
    <3>1. f \in LeafCert(x.cert, c, Demanded(x))
      BY <1>8, <2>2 DEF LeafFindings
    <3>2. y.cert # NoCert /\ (y.cert = x.cert \/ CompletedCert(x.cert, y.cert))
      BY <2>2 DEF CompletedContext
    <3>3. x.cert \in Certificate
      BY <2>2 DEF TlsContext
    <3>4. LeafCert(x.cert, d, Demanded(x)) = LeafCert(x.cert, c, Demanded(x))
      BY DEF LeafCert
    <3>5. f \in LeafCert(y.cert, d, Demanded(y))
      BY <1>1, <3>1, <3>2, <3>3, <3>4, LeafKept
    <3>6. f \in LeafFindings(y, d, Demanded(y))
      BY <3>2, <3>5 DEF LeafFindings
    <3> QED
      BY <3>6 DEF Context
  <2> QED
    BY <2>1, <2>2
<1> QED
  BY <1>2, <1>3, <1>4, <1>5, <1>6, <1>7, <1>8

LEMMA CaKept ==
  ASSUME NEW c \in NormalizedConfig, NEW d \in NormalizedConfig, Completed(c, d),
         NEW f \in CaCompliance(c), f.id \notin Unseen
  PROVE  f \in CaCompliance(d)
<1>1. d.fqdn = c.fqdn /\ (HasTeams(d) <=> HasTeams(c)) /\ (c.ios # "?" => d.ios = c.ios)
  BY FilesKept, RolesKept
<1>2. CASE ~HasTeams(c)
  BY <1>1, <1>2 DEF CaCompliance
<1>3. CASE HasTeams(c)
  <2> DEFINE t == Teams(c)
             u == Teams(d)
  <2>1. /\ t \in SipInterface /\ u \in SipInterface /\ CompletedLeg(t, u)
    BY <1>1, <1>3, RolesKept, TeamsTyped
  <2> HIDE DEF t, u
  <2>2. t.srtp # "?" => u.srtp = t.srtp
    BY <2>1, LegKept
  <2>3. u.tls = t.tls \/ (NoContext \notin {t.tls, u.tls} /\ CompletedContext(t.tls, u.tls))
    BY <2>1 DEF CompletedLeg
  <2>4. CASE t.tls = NoContext
    BY <1>1, <1>3, <2>3, <2>4 DEF CaCompliance, t, u
  <2>5. CASE t.tls # NoContext
    <3>1. t.tls \in TlsContext /\ u.tls \in TlsContext /\ u.tls # NoContext
      BY <2>1, <2>3, <2>5 DEF SipInterface
    <3>2. f \in Context(c, t, t.tls)
      BY <1>3, <2>5 DEF CaCompliance, t
    <3>3. f \in Context(d, u, u.tls)
      BY <1>1, <2>2, <2>3, <3>1, <3>2, ContextFound
    <3> QED
      BY <1>1, <1>3, <3>1, <3>3 DEF CaCompliance, u
  <2> QED
    BY <2>4, <2>5
<1> QED
  BY <1>2, <1>3
LEMMA NatKept ==
  ASSUME NEW c \in NormalizedConfig, NEW d \in NormalizedConfig, Completed(c, d)
  PROVE  NatTraversal(c) \subseteq NatTraversal(d)
<1>0. c.realms \in Seq(MediaRealm)
  BY DEF NormalizedConfig
<1>1. DOMAIN d.realms = DOMAIN c.realms
  BY DEF Completed
<1>2. ASSUME NEW i \in DOMAIN c.realms
      PROVE  /\ d.realms[i].role = c.realms[i].role /\ d.realms[i].advertised = c.realms[i].advertised
             /\ d.realms[i].local = c.realms[i].local
             /\ c.realms[i].symmetric = "off" => d.realms[i].symmetric = "off"
  <2> DEFINE r == c.realms[i]
             s == d.realms[i]
  <2>1. r \in MediaRealm
    BY <1>0
  <2>2. s = [r EXCEPT !.symmetric = Or(@, s.symmetric)]
    BY DEF Completed
  <2> HIDE DEF r, s
  <2>3. s.role = r.role /\ s.advertised = r.advertised /\ s.local = r.local /\ s.symmetric = Or(r.symmetric, s.symmetric)
    BY <2>1, <2>2 DEF MediaRealm
  <2> QED
    BY <2>3 DEF Or, r, s
<1> DEFINE public(e) == {i \in DOMAIN e.realms : e.realms[i].role # "internal"}
           hidden(e) == {i \in public(e) : e.realms[i].advertised = "?" /\ ~LocalPublic(e.realms[i])}
           private(e) == {i \in public(e) : e.realms[i].advertised = "private4"}
           asymmetric(e) == {i \in DOMAIN e.realms : e.realms[i].symmetric = "off"}
           mixed(e) == \A f \in {4, 6} : \E i \in public(e) : FamilyOf(e.realms[i]) = f
<1>3. \A i \in DOMAIN c.realms : /\ FamilyOf(d.realms[i]) = FamilyOf(c.realms[i])
                                 /\ LocalPublic(d.realms[i]) = LocalPublic(c.realms[i])
  BY <1>2 DEF FamilyOf, LocalPublic
<1>4. public(d) = public(c)
  BY <1>1, <1>2
<1>5. hidden(d) = hidden(c) /\ private(d) = private(c)
  BY <1>1, <1>2, <1>3, <1>4
<1>6. asymmetric(c) \subseteq asymmetric(d)
  BY <1>1, <1>2
<1>7. mixed(c) => mixed(d)
  BY <1>1, <1>3, <1>4
<1>8. \A e : NatTraversal(e) =
        When(DOMAIN e.realms = {}, "D.MEDIA.NO_REALM", "MEDIUM")
        \cup Each(hidden(e), "D.NAT.NO_PUBLIC_IP", "HIGH")
        \cup Each(private(e), "D.NAT.PRIVATE_ADVERTISED", "CRITICAL")
        \cup Each(asymmetric(e), "D.NAT.NO_SYMMETRIC_RTP", "MEDIUM")
        \cup When(mixed(e), "D.IPV6.MIXED_MODE", "MEDIUM")
  BY DEF NatTraversal
<1> HIDE DEF hidden, private, asymmetric, mixed
<1>9. Each(asymmetric(c), "D.NAT.NO_SYMMETRIC_RTP", "MEDIUM")
        \subseteq Each(asymmetric(d), "D.NAT.NO_SYMMETRIC_RTP", "MEDIUM")
  BY <1>6, InEach
<1>10. When(mixed(c), "D.IPV6.MIXED_MODE", "MEDIUM") \subseteq When(mixed(d), "D.IPV6.MIXED_MODE", "MEDIUM")
  BY <1>7, InWhen
<1> QED
  BY <1>1, <1>5, <1>8, <1>9, <1>10

\* More legs offer codecs, and less is common to them.
LEMMA OffersKept ==
  ASSUME NEW c \in NormalizedConfig, NEW d \in NormalizedConfig, Completed(c, d)
  PROVE  /\ Legs(c) \subseteq Legs(d) /\ Offered(c) \subseteq Offered(d)
         /\ Common(d) \subseteq Common(c) /\ Methods(d) = Methods(c)
         /\ Cardinality(Legs(c)) >= 2 => Cardinality(Legs(d)) >= 2
<1>1. DOMAIN d.ifaces = DOMAIN c.ifaces
  BY DEF Completed
<1>2. \A i \in DOMAIN c.ifaces :
        /\ d.ifaces[i].dtmf = c.ifaces[i].dtmf
        /\ c.ifaces[i].carried => d.ifaces[i].carried /\ d.ifaces[i].codecs = c.ifaces[i].codecs
  BY LegsKept, LegKept
<1>3. Legs(c) \subseteq Legs(d) /\ \A i \in Legs(c) : d.ifaces[i].codecs = c.ifaces[i].codecs
  BY <1>1, <1>2 DEF Legs
<1>4. Offered(c) \subseteq Offered(d)
  BY <1>3 DEF Offered
<1>5. Common(d) \subseteq Common(c)
  BY <1>3 DEF Common
<1>6. Methods(d) = Methods(c)
  BY <1>1, <1>2 DEF Methods
<1>7. IsFiniteSet(Legs(d))
  <2>1. d.ifaces \in Seq(SipInterface) /\ Legs(d) \in SUBSET DOMAIN d.ifaces
    BY DEF NormalizedConfig, Legs
  <2> QED
    BY <2>1, DomainFinite
<1>8. /\ Cardinality(Legs(c)) <= Cardinality(Legs(d))
      /\ Cardinality(Legs(c)) \in Nat /\ Cardinality(Legs(d)) \in Nat
  BY <1>3, <1>7, FS_Subset, FS_CardinalityType
<1> QED
  BY <1>3, <1>4, <1>5, <1>6, <1>8

LEMMA CodecKept ==
  ASSUME NEW c \in NormalizedConfig, NEW d \in NormalizedConfig, Completed(c, d)
  PROVE  Codec(c) \subseteq Codec(d)
<1> DEFINE shared(e) == Cardinality(Legs(e)) >= 2 /\ Common(e) # {}
           apart(e)  == Cardinality(Legs(e)) >= 2 /\ Common(e) = {}
           narrowed(e) == /\ Cardinality(Legs(e)) >= 2 /\ Common(e) # {} /\ Common(e) \cap Wideband = {}
                          /\ Offered(e) \cap Wideband # {}
<1>1. /\ Offered(c) \subseteq Offered(d) /\ Common(d) \subseteq Common(c) /\ Methods(d) = Methods(c)
      /\ Cardinality(Legs(c)) >= 2 => Cardinality(Legs(d)) >= 2
  BY OffersKept
<1>2. (Cardinality(Legs(c)) >= 2 /\ Common(c) # {}) => Common(d) # {}
  BY DEF Completed
<1>3. apart(c) => apart(d)
  BY <1>1
<1>4. narrowed(c) => narrowed(d)
  BY <1>1, <1>2
<1>5. HasTeams(c) => TeamsCodec(Teams(c)) \subseteq TeamsCodec(Teams(d))
  <2> SUFFICES ASSUME HasTeams(c), NEW f \in TeamsCodec(Teams(c)) PROVE f \in TeamsCodec(Teams(d))
    OBVIOUS
  <2> DEFINE t == Teams(c)
             u == Teams(d)
  <2>1. u.dtmf = t.dtmf /\ (t.carried => u.carried /\ u.codecs = t.codecs)
    BY RolesKept, LegKept
  <2> HIDE DEF t, u
  <2>2. f \in TeamsCodec(t)
    BY DEF t
  <2>3. CASE f \in When(t.dtmf = "inband", "E.DTMF.INBAND_TEAMS", "MEDIUM")
    <3>1. f \in TeamsCodec(u)
      BY <2>1, <2>3 DEF TeamsCodec
    <3> QED
      BY <3>1 DEF u
  <2>4. CASE f \notin When(t.dtmf = "inband", "E.DTMF.INBAND_TEAMS", "MEDIUM")
    <3>1. t.carried
      BY <2>2, <2>4, InWhen DEF TeamsCodec, CarriesCodecs
    <3>2. u.carried /\ u.codecs = t.codecs
      BY <2>1, <3>1
    <3>3. f \in TeamsCodec(u)
      BY <2>2, <2>4, <3>1, <3>2, InWhen DEF TeamsCodec, CarriesCodecs
    <3> QED
      BY <3>3 DEF u
  <2> QED
    BY <2>3, <2>4
<1>6. /\ When(apart(c), "E.CODEC.NO_CROSS_OVERLAP", "MEDIUM")
         \subseteq When(apart(d), "E.CODEC.NO_CROSS_OVERLAP", "MEDIUM")
      /\ When(narrowed(c), "E.CODEC.WIDEBAND_DOWNGRADE", "INFO")
         \subseteq When(narrowed(d), "E.CODEC.WIDEBAND_DOWNGRADE", "INFO")
  <2> HIDE DEF apart, narrowed
  <2> QED
    BY <1>3, <1>4, InWhen
<1>7. \A e : Codec(e) =
        (IF HasTeams(e) THEN TeamsCodec(Teams(e)) ELSE {})
        \cup When(apart(e), "E.CODEC.NO_CROSS_OVERLAP", "MEDIUM")
        \cup When(narrowed(e), "E.CODEC.WIDEBAND_DOWNGRADE", "INFO")
        \cup When(Methods(e) # {} /\ "rfc2833" \notin Methods(e), "E.DTMF.METHOD", "LOW")
        \cup When(Cardinality(Methods(e)) > 1, "E.DTMF.INCONSISTENT", "MEDIUM")
  BY DEF Codec
<1>8. HasTeams(d) <=> HasTeams(c)
  BY RolesKept
<1> HIDE DEF apart, narrowed
<1> QED
  BY <1>1, <1>5, <1>6, <1>7, <1>8

LEMMA RoutingKept ==
  ASSUME NEW c \in NormalizedConfig, NEW d \in NormalizedConfig, Completed(c, d)
  PROVE  Routing(c) \subseteq Routing(d)
<1>1. d.routes = c.routes /\ (HasTeams(d) <=> HasTeams(c)) /\ (c.classified = "off" => d.classified = "off")
  BY FilesKept, RolesKept
<1>2. When(c.classified = "off", "G.CLASS.UNCLASSIFIED", "HIGH")
        \subseteq When(d.classified = "off", "G.CLASS.UNCLASSIFIED", "HIGH")
  BY <1>1, InWhen
<1> QED
  BY <1>1, <1>2 DEF Routing

LEMMA AccessKept ==
  ASSUME NEW c \in NormalizedConfig, NEW d \in NormalizedConfig, Completed(c, d)
  PROVE  AccessControl(c) \subseteq AccessControl(d)
<1>1. d.acls = c.acls /\ (c.rtpCheck = "off" => d.rtpCheck = "off")
  BY FilesKept
<1>2. PICK acls : acls = c.acls
  OBVIOUS
<1> DEFINE rules   == DOMAIN acls
           permits == {i \in rules : acls[i].action = "permit"}
           denies  == rules \ permits
           planes  == {acls[i].plane : i \in permits}
           vers    == {acls[i].ver : i \in rules}
           shadows == {i \in rules : Shadowed(acls, i)}
           open(e) == When(e.rtpCheck = "off", "S.RTP.SOURCE_VALIDATION_OFF", "MEDIUM")
           listed  ==
             When(permits # {} /\ \A i \in denies : acls[i].net \notin {"none", "any"},
                  "S.ACL.NO_DEFAULT_DENY", "HIGH")
             \cup Each({i \in permits : acls[i].net \in {"any", "wide"}}, "S.ACL.BROAD_CIDR", "MEDIUM")
             \cup When(planes = {"signaling"}, "S.ACL.MEDIA_PLANE_MISSING", "HIGH")
             \cup When(vers = {4}, "S.ACL.IPV6_NEGLECT", "HIGH")
             \cup Each(shadows \cap denies, "S.ACL.SHADOWED_DENY", "HIGH")
             \cup Each(shadows \cap permits, "S.ACL.SHADOWED_PERMIT", "MEDIUM")
<1>3. \A e : e.acls = acls => AccessControl(e) = listed \cup open(e)
  BY DEF AccessControl
<1>4. open(c) \subseteq open(d)
  BY <1>1, InWhen
<1> HIDE DEF listed, open
<1> QED
  BY <1>1, <1>2, <1>3, <1>4

\* The tristate discipline, for every pair of configurations.
THEOREM CompletionKeepsFindings ==
  ASSUME NEW c \in NormalizedConfig, NEW d \in NormalizedConfig, Completed(c, d)
  PROVE  {f \in AllFindings(c) : f.id \notin Unseen} \subseteq AllFindings(d)
BY SyntaxKept, InteropKept, CaKept, NatKept, CodecKept, RoutingKept, AccessKept DEF AllFindings

\* A run on a configuration that carries all that the one before carried, and more,
\* finds all that was found there, but what says that something could not be seen
\* (models.py, the validators).
THEOREM OnlyCarriedJudged == CommandSpec => []OnlyCarriedIsJudged
<1>1. IInv /\ EditInv /\ ReadInv => OnlyCarriedIsJudged
  <2> SUFFICES ASSUME IInv, EditInv, ReadInv, Judged, change # "none", Completed(prev.config, config)
               PROVE  {f \in prev.findings : f.id \notin Unseen} \subseteq findings
    BY DEF OnlyCarriedIsJudged
  <2>1. PICK f \in Files : /\ Parse(f) # Unparsable /\ prev.config = Parse(f)
                           /\ prev.findings = AllFindings(Parse(f))
    BY DEF EditInv
  <2>2. config = Parse(file) /\ config # Unparsable /\ findings = AllFindings(config)
    BY DEF ReadInv, IInv, Faithful, FindingsInv, Judged
  <2>3. Parse(f) \in NormalizedConfig /\ config \in NormalizedConfig
    BY <2>1, ParseAssumption DEF IInv, ConfigInv
  <2> QED
    BY <2>1, <2>2, <2>3, CompletionKeepsFindings
<1> QED
  BY <1>1, RunsTyped, EditsAreHistory, ValidateUndisturbed, PTL

\* Repairing a setting and validating again never makes the verdict worse
\* (report/risk.py, the validators).
THEOREM RepairsNeverWorsen == CommandSpec => []RepairNeverWorsens
<1>1. IInv /\ EditInv /\ ReadInv => RepairNeverWorsens
  <2> SUFFICES ASSUME IInv, EditInv, ReadInv, Judged, change = "repair",
                      Ids(prev.findings) \cap (Blinding \cup {"E.DTMF.METHOD"}) = {}, ~Unread(prev.config)
               PROVE  Rank(verdict) <= Rank(prev.verdict)
    BY DEF RepairNeverWorsens
  <2>1. PICK f \in Files : /\ Parse(f) # Unparsable /\ prev.config = Parse(f)
                           /\ prev.findings = AllFindings(Parse(f))
                           /\ prev.verdict = Verdict(AllFindings(Parse(f)))
                           /\ file \in Repairs(f)
    BY DEF EditInv
  <2>2. /\ config = Parse(file) /\ config # Unparsable /\ verdict = Verdict(AllFindings(config))
    BY DEF ReadInv, IInv, Faithful, FindingsInv, VerdictInv, Judged
  <2>3. Parse(f) \in NormalizedConfig /\ config \in NormalizedConfig
    BY <2>1, ParseAssumption DEF IInv, ConfigInv
  <2>4. Repaired(Parse(f), config)
    BY <2>1, <2>2, RepairAssumption
  <2>5. PICK c \in NormalizedConfig : c = Parse(f)
    BY <2>3
  <2>6. Rank(Verdict(AllFindings(config))) <= Rank(Verdict(AllFindings(c)))
    BY <2>1, <2>3, <2>4, <2>5, MendingNeverWorsens
  <2> QED
    BY <2>1, <2>2, <2>5, <2>6
<1> QED
  BY <1>1, RunsTyped, EditsAreHistory, ValidateUndisturbed, PTL
==============================================================================
