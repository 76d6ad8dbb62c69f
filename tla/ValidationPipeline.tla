------------------------- MODULE ValidationPipeline -------------------------
(***************************************************************************)
(* `validate` (cli.py, run): parse the file, apply the seven validators,   *)
(* score the findings, predict the call, and gate with the exit code.      *)
(* The file is edited between runs: a setting is repaired, or spoiled, or  *)
(* one that the source did not carry is filled in.  prev and change are    *)
(* history: what the previous complete run said, and how the file was      *)
(* edited since.                                                           *)
(*                                                                         *)
(* A definition named X_Y is the definition X with a bug Y.                *)
(***************************************************************************)
EXTENDS Validators, Risk, CallSim

CONSTANTS Files,
          Parse(_),           \* what detect_and_parse makes of a file
          Unparsable,         \* it raised
          Repairs(_),         \* the files a repair of this one can lead to
          Completions(_),     \* those that give it a setting it lacked
          Breakages(_),       \* those that spoil a setting
          NoRun

ASSUME EditsAssumption ==
  \A f \in Files : Repairs(f) \subseteq Files /\ Completions(f) \subseteq Files
                     /\ Breakages(f) \subseteq Files

\* Parsers return normalized configurations.
ASSUME ParseAssumption == \A f \in Files : Parse(f) \in NormalizedConfig \cup {Unparsable}

VARIABLES file, phase, config, findings, verdict, risk, outcome, exit, prev, change
vars   == <<file, phase, config, findings, verdict, risk, outcome, exit, prev, change>>
report == <<findings, verdict, risk, outcome>>
edits  == <<file, prev, change>>

Phases == {"parse", "validate", "score", "simulate", "gate", "exited"}

FreshRun == /\ phase = "parse" /\ config = Unparsable /\ findings = {}
            /\ verdict = "PASS" /\ risk = 0 /\ outcome = "STABLE" /\ exit = -1
Init == FreshRun /\ file \in Files /\ prev = NoRun /\ change = "none"

\* Whatever a parser raises ends the run with exit code 2.
ParseConfig ==
  /\ phase = "parse"
  /\ config' = Parse(file)
  /\ IF config' = Unparsable THEN phase' = "exited" /\ exit' = 2
                             ELSE phase' = "validate" /\ exit' = exit
  /\ UNCHANGED <<report, edits>>

Validate == /\ phase = "validate" /\ phase' = "score"
            /\ findings' = AllFindings(config)
            /\ UNCHANGED <<config, verdict, risk, outcome, exit, edits>>

Score == /\ phase = "score" /\ phase' = "simulate"
         /\ risk' = RiskScore(findings) /\ verdict' = Verdict(findings)
         /\ UNCHANGED <<config, findings, outcome, exit, edits>>

Simulate == /\ phase = "simulate" /\ phase' = "gate"
            /\ outcome' = Outcome(findings)
            /\ UNCHANGED <<config, findings, verdict, risk, exit, edits>>

\* --fail-on block or review.
Threshold(failOn) == IF failOn = "block" THEN 2 ELSE 1
Gate(failOn) == /\ phase = "gate" /\ phase' = "exited"
                /\ exit' = IF Rank(verdict) >= Threshold(failOn) THEN 1 ELSE 0
                /\ UNCHANGED <<config, report, edits>>

\* The file is edited and validated again.
Edit(how, editions) ==
  /\ phase = "exited" /\ config # Unparsable
  /\ file' \in editions /\ change' = how
  /\ prev' = [config |-> config, findings |-> findings, verdict |-> verdict]
  /\ phase' = "parse" /\ config' = Unparsable /\ findings' = {}
  /\ verdict' = "PASS" /\ risk' = 0 /\ outcome' = "STABLE" /\ exit' = -1

Repair   == Edit("repair", Repairs(file))
Complete == Edit("complete", Completions(file))
Break    == Edit("break", Breakages(file))

Next == \/ ParseConfig \/ Validate \/ Score \/ Simulate
        \/ \E failOn \in {"block", "review"} : Gate(failOn)
        \/ Repair \/ Complete \/ Break
Spec == Init /\ [][Next]_vars
----------------------------------------------------------------------------
Ids(fs)  == {f.id : f \in fs}
Judged   == phase = "exited" /\ config # Unparsable

\* Every variable has its type; the risk lies between 0 and 100 whatever the
\* number of findings (score, min(100, raw)).
TypeOK == /\ file \in Files /\ phase \in Phases
          /\ \A f \in findings : f.sev \in Severities
          /\ verdict \in Verdicts /\ risk \in 0..100 /\ outcome \in Outcomes
          /\ exit \in {-1, 0, 1, 2} /\ change \in {"none", "repair", "complete", "break"}

\* The two tables the report is built from, the severities of the validators
\* and the hard stops of the call simulation, are written apart.  A call that
\* is predicted to die passes the gate only for a missing Teams interface or a
\* chain that ends outside Microsoft's roots, which the validators call MEDIUM.
LenientStops   == {"B.IFACE.NO_TEAMS", "C.CERT.UNTRUSTED_ANCHOR"}
DeadCallGated  == Judged /\ outcome \in Dead /\ verdict = "PASS"
                    => Ids(findings) \cap LenientStops # {}

\* Conversely, a call is predicted STABLE against a HIGH or CRITICAL finding
\* only when that finding is about access control, which no call notices, or
\* about the Contact header.
UnseenByCall   == {"B.SIP.CONTACT_FQDN", "S.ACL.NO_DEFAULT_DENY", "S.ACL.MEDIA_PLANE_MISSING",
                   "S.ACL.IPV6_NEGLECT", "S.ACL.SHADOWED_DENY"}
StableIsUngated == Judged /\ outcome = "STABLE" =>
  \A f \in findings : f.sev \in {"HIGH", "CRITICAL"} => f.id \in UnseenByCall

\* d is c with settings filled in that c does not carry, whatever their values,
\* as long as the legs that offer codecs still have one in common.
Or(a, b) == IF a = "?" THEN b ELSE a
CompletedCert(k, l) ==
  l = [k EXCEPT !.expiry = Or(@, l.expiry), !.issuer = Or(@, l.issuer),
                !.chainComplete = Or(@, l.chainComplete)]
CompletedContext(x, y) ==
  /\ y = [x EXCEPT !.mtls = Or(@, y.mtls), !.minTls = Or(@, y.minTls),
                   !.ciphers = Or(@, y.ciphers), !.cert = y.cert]
  /\ \/ y.cert = x.cert \/ (x.cert = NoCert /\ ~x.introspectable)
     \/ NoCert \notin {x.cert, y.cert} /\ CompletedCert(x.cert, y.cert)
CompletedLeg(x, y) ==
  /\ y = [x EXCEPT !.keepalive = Or(@, y.keepalive), !.contact = Or(@, y.contact),
                   !.srtp = Or(@, y.srtp), !.interval = IF @ = -1 THEN y.interval ELSE @,
                   !.carried = @ \/ y.carried, !.codecs = IF x.carried THEN @ ELSE y.codecs,
                   !.tls = y.tls]
  /\ y.tls = x.tls \/ (NoContext \notin {x.tls, y.tls} /\ CompletedContext(x.tls, y.tls))
Completed(c, d) ==
  /\ d = [c EXCEPT !.ios = Or(@, d.ios), !.classified = Or(@, d.classified),
                   !.rtpCheck = Or(@, d.rtpCheck), !.ifaces = d.ifaces, !.realms = d.realms]
  /\ DOMAIN d.ifaces = DOMAIN c.ifaces
  /\ \A i \in DOMAIN c.ifaces : CompletedLeg(c.ifaces[i], d.ifaces[i])
  /\ DOMAIN d.realms = DOMAIN c.realms
  /\ \A i \in DOMAIN c.realms :
       d.realms[i] = [c.realms[i] EXCEPT !.symmetric = Or(@, d.realms[i].symmetric)]
  /\ (Cardinality(Legs(c)) >= 2 /\ Common(c) # {}) => Common(d) # {}

\* A setting a configuration does not carry is judged by no check: a run on one
\* that carries it, besides all that the one before carried, repeats all that was
\* found there (the tristate discipline of models.py), except what says that
\* something could not be seen.
Unseen == {"C.CERT.UNAVAILABLE", "C.CERT.DEEP_UNAVAILABLE", "C.CA.TRUST_STORE_UNAVAILABLE",
           "C.SRTP.MEDIA_TRUST_UNVERIFIED"}
OnlyCarriedIsJudged == Judged /\ change # "none" /\ Completed(prev.config, config) =>
  {f \in prev.findings : f.id \notin Unseen} \subseteq findings

\* ... and so it is of the source itself, whose missing lines the parser leaves
\* unknown: a line that is filled in removes no finding.
UnknownJudgesNothing == Judged /\ change = "complete" =>
  {f \in prev.findings : f.id \notin Unseen} \subseteq findings

\* More findings never make a better verdict (risk.py: the score gate only
\* ever escalates).
VerdictMonotone == Judged /\ change # "none" /\ prev.findings \subseteq findings
                     => Rank(prev.verdict) <= Rank(verdict)

(* In d settings that were wrong in c have a value no validator objects to,   *)
(* any number of them.  What c gave nobody to see, no leg to Teams or no      *)
(* context for it, no readable certificate or no media realm, is of any kind. *)
Unreadable == {"unreadable", "noCrypto"}
MendedCert(k, l) ==
  /\ l.ekus \in {k.ekus, {"server"}} /\ l.covers \in {k.covers, TRUE} /\ l.expiry \in {k.expiry, "far"}
  /\ l.issuer \in {k.issuer, "program"} /\ l.chainComplete \in {k.chainComplete, "on"}
  /\ l.pem = k.pem /\ l.chain \in {k.chain} \cup (RequiredRoots \ ChainFaults)
MendedContext(x, y) ==
  /\ y.mtls \in {x.mtls, "on"} /\ y.minTls \in {x.minTls, "1.2", "1.3"} /\ y.ciphers \in {x.ciphers, "shared"}
  /\ y.introspectable = x.introspectable
  /\ y.roots = x.roots \/ (x.introspectable /\ RequiredRoots \subseteq y.roots)
  /\ x.cert # NoCert => /\ y.cert # NoCert
                        /\ x.cert.pem \in Unreadable \/ MendedCert(x.cert, y.cert)

SameOffer(x, y) == y.carried = x.carried /\ y.codecs = x.codecs
Serves(t) == t.codecs \cap (TeamsCodecs \cup {"AMR-WB"}) # {}
MendedLeg(x, y) ==
  /\ y.role = x.role /\ y.normalized \in {x.normalized, TRUE}
  /\ y.keepalive \in {x.keepalive, "on"} /\ y.contact \in {x.contact, "under"}
  /\ y.interval = x.interval \/ IntervalOk(y.interval)
  /\ y.dtmf \in {x.dtmf, "rfc2833"} /\ y.srtp \in {x.srtp, "on"}
  /\ SameOffer(x, y) \/ (y.carried /\ Serves(y))
  /\ y.transport = x.transport \/ (y.transport = "tls" /\ y.tls # NoContext)
  /\ x.tls # NoContext => y.tls # NoContext /\ MendedContext(x.tls, y.tls)
\* What the legs offer has something in common, unless one that had offered
\* Teams nothing is the first to be mended.  Names stay or are new.
MendedLegs(c, d) ==
  /\ DOMAIN d.ifaces = DOMAIN c.ifaces
  /\ \A i \in DOMAIN c.ifaces : MendedLeg(c.ifaces[i], d.ifaces[i])
  /\ \/ \A i \in DOMAIN c.ifaces : SameOffer(c.ifaces[i], d.ifaces[i])
     \/ Common(d) # {} \/ (Teams(c).carried /\ ~Serves(Teams(c)) /\ Serves(Teams(d)))
  /\ \A i, j \in DOMAIN d.ifaces : i # j /\ d.ifaces[i].name = d.ifaces[j].name
       => c.ifaces[i].name = d.ifaces[i].name /\ c.ifaces[j].name = d.ifaces[j].name

\* No realm is added, and the address of a sound one stays.
MendedRealm(r, s) ==
  /\ s.role = r.role /\ s.local = r.local /\ s.symmetric \in {r.symmetric, "on"}
  /\ \/ s.advertised = r.advertised
     \/ s.advertised = "public4" /\ (r.advertised = "private4" \/ (r.advertised = "?" /\ ~LocalPublic(r)))
MendedRealms(c, d) ==
  /\ d.realms # << >> /\ DOMAIN d.realms \subseteq DOMAIN c.realms
  /\ \A i \in DOMAIN d.realms : MendedRealm(c.realms[i], d.realms[i])

\* A list without an open end, and rules that are used and none too broad.
SoundRules(acls) ==
  LET permits == {i \in DOMAIN acls : acls[i].action = "permit"} IN
  /\ permits # {} => /\ \E i \in DOMAIN acls \ permits : acls[i].net \in {"none", "any"}
                     /\ \E i \in permits : acls[i].plane # "signaling"
  /\ \A i \in permits : acls[i].net \notin {"any", "wide"}
  /\ acls # << >> => \E i \in DOMAIN acls : acls[i].ver = 6
  /\ \A i \in DOMAIN acls : ~Shadowed(acls, i)

\* Calls are routed to Teams and from it.
Routed(routes) == /\ \E r \in routes : r[1] = "teams" /\ r[2] # "teams"
                  /\ \E r \in routes : r[1] # "teams" /\ r[2] = "teams"

Visible(c) == HasTeams(c) /\ Teams(c).tls # NoContext
Repaired(c, d) ==
  /\ d.fqdn \in {c.fqdn, "name"} /\ d.ios \in {c.ios, "fixed", "?"}
  /\ d.classified \in {c.classified, "on"} /\ d.rtpCheck \in {c.rtpCheck, "on"}
  /\ Visible(c) => MendedLegs(c, d)
  /\ c.realms # << >> => MendedRealms(c, d)
  /\ d.routes = c.routes \/ Routed(d.routes)
  /\ d.acls = c.acls \/ SoundRules(d.acls)

\* Repairing one setting and validating again never makes the verdict worse,
\* unless the earlier run could not see something: no Teams interface, no FQDN,
\* no certificate or no media realm, which it said, or a certificate file that
\* could not be read, which it did not; or unless one leg of two that agree on
\* a poor DTMF method (LOW) is repaired first, and they disagree (MEDIUM).
Blinding == {"B.IFACE.NO_TEAMS", "A.SEM.MISSING_FQDN", "C.CERT.UNAVAILABLE", "D.MEDIA.NO_REALM"}
LeafOf(c) == Teams(c).tls.cert
HasLeaf(c) == HasTeams(c) /\ Teams(c).tls # NoContext /\ LeafOf(c) # NoCert
Unread(c)  == HasLeaf(c) /\ LeafOf(c).pem \in Unreadable
RepairNeverWorsens ==
  Judged /\ change = "repair" /\ Ids(prev.findings) \cap (Blinding \cup {"E.DTMF.METHOD"}) = {}
    /\ ~Unread(prev.config) => Rank(verdict) <= Rank(prev.verdict)
----------------------------------------------------------------------------
\* What the repository says, and the code does not do.

\* A chain that is reported as anchored ends at a required root.
AnchoredIsTrusted == Judged /\ "C.CERT.CHAIN_ANCHORED" \in Ids(findings)
                       => LeafOf(config).chain \in RequiredRoots
=============================================================================
