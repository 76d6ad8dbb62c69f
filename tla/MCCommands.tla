----------------------------- MODULE MCCommands -----------------------------
(***************************************************************************)
(* Files for Commands: those of MCValidationPipeline, compared with each   *)
(* other, files that differ in their access list, and certificate files.   *)
(***************************************************************************)
EXTENDS MCValidationPipeline, Commands

RepairsAny(f)     == IF IsList(f) THEN {} ELSE RepairsOf(f)
CompletionsAny(f) == IF IsList(f) THEN {} ELSE CompletionsOf(f)
BreakagesAny(f)   == IF IsList(f) THEN {} ELSE BreakagesOf(f)

\* Edits that complete a file do complete the configuration it is parsed to.
ASSUME CompletionsComplete ==
  \A f \in AllSources : \A g \in CompletionsAny(f) : Completed(ParseAny(f), ParseAny(g))

\* Two files of one kind: the sound one and one with a fault, two that differ in
\* the value of one setting, or a file with two faults and one of its repairs.
Singles(base, settings) == {[base |-> base, faults |-> {p}] : p \in {q \in Faults : q[1] \in settings}}
Kin(f) == IF f.faults = {} THEN Singles(f.base, DOMAIN Values)
          ELSE Singles(f.base, {p[1] : p \in f.faults}) \cup {[f EXCEPT !.faults = {}]}
OwnFault(f) == f.base = "ini" \/ \E p \in f.faults : p[1] \in {"ekus", "expiry"}
PeersOf(f) == IF f = Garbage THEN {Garbage}
              ELSE IF f.base \notin {"full", "ini"} THEN {}
              ELSE IF Cardinality(f.faults) <= 1 THEN Kin(f) \cup {Garbage}
              ELSE IF OwnFault(f) THEN RepairsOf(f) ELSE {}
SubjectOf(k) == IF k.expiry = "?" THEN Unnamed ELSE IF k.covers THEN "sbc" ELSE "other"
Up == {f \in Sources \ {Garbage} : Cardinality(f.faults) <= 1}

\* Certificates: a leaf, well signed, self-signed or forged; an intermediate,
\* cross-signed and rekeyed; a root, cross-signed and forged; another root, and
\* one that is issued by the intermediate again.
Made(subject, issuer, key, by) == [subject |-> subject, issuer |-> issuer, key |-> key, by |-> by]
Leaves == {Made("leaf", "ca", "kl", "kc"), Made("leaf", "leaf", "kl", "kl"),
           Made("leaf", "ca", "kl", "kx")}
Root   == Made("root", "root", "kr", "kr")
Old    == Made("old", "old", "ko", "ko")
Chained == {Made("ca", "root", "kc", "kr"), Made("ca", "old", "kc", "ko"),
            Made("ca", "root", "kx", "kr"), Root, Made("root", "old", "kr", "ko"),
            Made("root", "root", "kx", "kr"), Old, Made("old", "ca", "ko", "kc"),
            Made("old", "ca", "ko", "kx")}
Certs  == Leaves \cup Chained
FingerprintOf(c) == IF c = Root THEN "g2" ELSE "foreign"
BundlesOf(f) ==
  IF f \in {[base |-> "full", faults |-> {<<"cert", "read">>}], [base |-> "ini", faults |-> {}]}
  THEN {<<Root>>, <<Root, Old>>} \cup {<<l, Made("ca", "old", "kc", "ko"), Old, Root>> : l \in Leaves}
  ELSE IF f = [base |-> "ini", faults |-> {<<"roots", "some">>}]
  THEN {<<l>> \o s : l \in Leaves,
          s \in UNION {{t \in [1..n -> Chained] : \A i, j \in 1..n : t[i] = t[j] => i = j} :
                         n \in 0..4}}
  ELSE {}
=============================================================================
