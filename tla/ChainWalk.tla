------------------------------ MODULE ChainWalk ------------------------------
(***************************************************************************)
(* The certificate file a configuration refers to (cert_inspect.py): a     *)
(* leaf followed by any other certificates, in any order.  It is walked    *)
(* twice from the leaf: by _chain_complete, which prefers an issuer whose  *)
(* signature verifies, and by verify_chain, which demands one.             *)
(*                                                                         *)
(* A definition named X_Y is the definition X with a bug Y.                *)
(***************************************************************************)
EXTENDS Integers, Sequences, FiniteSets

CONSTANTS Cert,     \* [subject, issuer, key : its own, by : the key that signed it]
          Fingerprint(_), \* which root a certificate is
          NoBundle

VARIABLES bundle, pass, cur, seen, complete, ending
chainVars == <<bundle, pass, cur, seen, complete, ending>>

Passes  == {"closed", "complete", "verify", "judge", "judged"}
Endings == {"none", "root", "badRoot", "badSignature", "noRoot"}

NothingOpen == /\ bundle = NoBundle /\ pass = "closed" /\ cur = NoBundle
               /\ seen = {} /\ complete = FALSE /\ ending = "none"

\* _issued_by: the names chain and the candidate's key signed it.
IssuedBy(c, d) == c.issuer = d.subject /\ c.by = d.key

SelfIssued(c)   == c.subject = c.issuer
Candidates(c)   == {i \in DOMAIN bundle : bundle[i].subject = c.issuer}
Signers_FirstSibling(c) ==
  {i \in Candidates(c) : IssuedBy(c, bundle[i]) /\ \A j \in Candidates(c) : i <= j}
Signers_AnySibling(c) == Candidates(c)
Signers(c)      == {i \in Candidates(c) : IssuedBy(c, bundle[i])}
FirstOf(places) == bundle[CHOOSE i \in places : \A j \in places : i <= j]

\* _chain_complete goes on with a sibling that signed nothing, if none did.
BestIssuer(c)   == FirstOf(IF Signers(c) # {} THEN Signers(c) ELSE Candidates(c))
DeadEnd_Unseen(c) == Candidates(c) = {}
DeadEnd(c)      == Candidates(c) = {} \/ c.issuer \in seen

\* inspect_file opens the file; its first certificate is the leaf.
Open(b) == /\ pass = "closed" /\ bundle' = b /\ pass' = "complete"
           /\ cur' = b[1] /\ seen' = {} /\ UNCHANGED <<complete, ending>>

Climb(c) == /\ cur' = c /\ seen' = seen \cup {cur.issuer}
            /\ UNCHANGED <<bundle, pass, complete, ending>>

\* _chain_complete; the next walk starts at the leaf again.
CompleteEnds ==
  /\ pass = "complete" /\ (SelfIssued(cur) \/ DeadEnd(cur))
  /\ complete' = SelfIssued(cur) /\ pass' = "verify"
  /\ cur' = bundle[1] /\ seen' = {} /\ UNCHANGED <<bundle, ending>>
CompleteClimbs ==
  pass = "complete" /\ ~SelfIssued(cur) /\ ~DeadEnd(cur) /\ Climb(BestIssuer(cur))

\* verify_chain
Stops(why, how) == pass = "verify" /\ why /\ ending' = how /\ pass' = "judge"
                   /\ UNCHANGED <<bundle, cur, seen, complete>>
RootReached  == Stops(SelfIssued(cur), IF IssuedBy(cur, cur) THEN "root" ELSE "badRoot")
IssuerAbsent == Stops(~SelfIssued(cur) /\ DeadEnd(cur), "noRoot")
NoneSigned   == Stops(~SelfIssued(cur) /\ ~DeadEnd(cur) /\ Signers(cur) = {}, "badSignature")
VerifyClimbs == /\ pass = "verify" /\ ~SelfIssued(cur) /\ ~DeadEnd(cur) /\ Signers(cur) # {}
                /\ Climb(FirstOf(Signers(cur)))

\* What _leaf_cert makes of the analysis, a fault of the chain or its root, is
\* judged then.
ChainOf ==
  IF SelfIssued(bundle[1]) /\ Len(bundle) = 1 THEN "selfSigned"
  ELSE IF ending \in {"badRoot", "badSignature"} THEN "badSignature"
  ELSE IF ending = "noRoot" THEN "noRoot"
  ELSE Fingerprint(cur)

Judge == pass = "judge" /\ pass' = "judged" /\ UNCHANGED <<bundle, cur, seen, complete, ending>>

WalkStep == \/ CompleteEnds \/ CompleteClimbs
            \/ RootReached \/ IssuerAbsent \/ NoneSigned \/ VerifyClimbs

ChainStep == (\E b \in Seq(Cert) \ {<< >>} : Open(b)) \/ WalkStep \/ Judge
ChainSpec == NothingOpen /\ [][ChainStep]_chainVars
----------------------------------------------------------------------------
\* The walk stays in the file, and forgets what it found only to start anew.
ChainTypeOK ==
  /\ pass \in Passes /\ ending \in Endings /\ complete \in BOOLEAN
  /\ pass # "closed" => /\ bundle \in Seq(Cert) /\ Len(bundle) > 0
                        /\ \E i \in DOMAIN bundle : cur = bundle[i]

\* The i-th certificate can be reached from the leaf, from certificate to
\* signer: it is in every set that holds the leaf and what signed a member.
Climbable(S) == /\ 1 \in S
                /\ \A i \in S, j \in DOMAIN bundle : IssuedBy(bundle[i], bundle[j]) => j \in S
Climbs  == {S \in SUBSET DOMAIN bundle : Climbable(S)}
Reached == {i \in DOMAIN bundle : \A S \in Climbs : i \in S}

\* A chain is only called anchored along signatures that verify, from the leaf
\* to a root that signed itself (verify_chain).
SelfSigned(c) == SelfIssued(c) /\ IssuedBy(c, c)
AnchorProven  == ending = "root" => SelfSigned(cur) /\ \E i \in Reached : bundle[i] = cur

\* Whatever the file holds, cycles of cross-signed authorities included, each
\* step looks for an issuer that was not looked for before: both walks end.
WalkProgress ==
  [][pass' = pass => seen \subseteq seen' /\ seen # seen']_chainVars
=============================================================================
