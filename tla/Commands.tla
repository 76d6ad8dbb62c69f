------------------------------ MODULE Commands ------------------------------
(***************************************************************************)
(* The other commands of cli.py that judge a file, beside the              *)
(* validate of ValidationPipeline: diff, probe, fleet, the reading of the  *)
(* certificate file a configuration names, and explain, for files that are *)
(* captures.  Each is run on a file, or on two, instead of a validate run; *)
(* out is what it said.                                                    *)
(*                                                                         *)
(* A definition named X_Y is the definition X with a bug Y.                *)
(***************************************************************************)
EXTENDS ValidationPipeline, HaDrift, Probe, Fleet, ChainWalk, CallTrace

CONSTANTS Peers(_),      \* the files a file is compared with
          Listening,     \* those whose SBC is up
          Bundles(_),    \* what the certificate file it names may hold
          Idle

ASSUME CommandAssumption ==
  /\ \A f \in Files : Peers(f) \subseteq Files
  /\ \A f \in Listening : Parse(f) # Unparsable
  /\ \A f \in Files : \A b \in Bundles(f) : b \in Seq(Cert) /\ b # << >>
  /\ \A c \in Cert : Fingerprint(c) \notin ChainFaults

\* A repair gives settings that were wrong a value no validator objects to.
ASSUME RepairAssumption ==
  \A f \in Files : \A g \in Repairs(f) :
    Unparsable \notin {Parse(f), Parse(g)} => Repaired(Parse(f), Parse(g))

VARIABLE out
commandVars == <<vars, chainVars, traceVars, out>>

CommandInit == Init /\ NothingOpen /\ NoCapture /\ out = Idle

Start  == FreshRun /\ prev = NoRun /\ out = Idle /\ pass = "closed" /\ Untapped
\* ours and theirs are history: what validate finds in the file, and in the other.
FindingsOf(f) == AllFindings(Parse(f))
Say(o)   == out' = o /\ UNCHANGED <<vars, chainVars, traceVars>>

\* run_diff; a file that does not parse ends the run with exit code 2.
DiffExit(drift, failOn) ==
  IF failOn = "any" THEN IF drift # {} THEN 1 ELSE 0
  ELSE IF Rank(Verdict(drift)) >= Threshold(failOn) THEN 1 ELSE 0
RunDiff == Start /\ \E other \in Peers(file) :
  IF Unparsable \in {Parse(file), Parse(other)} THEN Say([cmd |-> "diff", exit |-> 2])
  ELSE LET drift == HaDiff(Parse(file), Parse(other)) IN
       \E failOn \in {"block", "review", "any"} :
         Say([cmd |-> "diff", other |-> other, drift |-> drift, exit |-> DiffExit(drift, failOn),
              ours |-> FindingsOf(file), theirs |-> FindingsOf(other)])

\* run_probe of the address an SBC with this configuration listens on.
RunProbe ==
  /\ Start /\ file \in Listening /\ Presents(Parse(file))
  /\ \E hs \in Handshakes(Parse(file)) :
       Say([cmd |-> "probe", hs |-> hs, grade |-> Grade(hs), ours |-> FindingsOf(file),
            exit |-> IF Grade(hs) \in {"A", "B", "INCONCLUSIVE"} THEN 0 ELSE 1])

\* run_fleet: validate_one of every file of the directory that parses, then what
\* the rows say together.
FleetRow(f) == LET fs == FindingsOf(f) IN
  [findings |-> fs, ready |-> CaReady(fs), cn |-> CertName(Parse(f))]
ValidateEach == Start /\ \E other \in Peers(file) :
  Say([cmd |-> "rows",
       rows |-> [f \in {g \in {file, other} : Parse(g) # Unparsable} |-> FleetRow(f)]])
FleetFails(rows) == \E f \in DOMAIN rows : ~rows[f].ready
SumUp == /\ out # Idle /\ out.cmd = "rows"
         /\ Say([cmd |-> "fleet", rows |-> out.rows, atRisk |-> AtCascadeRisk(out.rows),
                 exit |-> IF FleetFails(out.rows) THEN 1 ELSE 0])

\* The certificate file is read and judged as part of a validate run.
ReadCertificate == Start /\ \E b \in Bundles(file) : Open(b) /\ UNCHANGED <<vars, traceVars, out>>
WalkCertificate == out = Idle /\ WalkStep /\ UNCHANGED <<vars, traceVars, out>>
JudgeChain ==
  /\ Judge
  /\ out' = [cmd |-> "inspect", chain |-> ChainOf, exit |-> 0,
             findings |-> Chain([chain |-> ChainOf], Demanded(Teams(Parse(file)).tls))]
  /\ UNCHANGED <<vars, traceVars>>

\* A capture is a file that no parser of configurations accepts.
TapAndExplain == /\ FreshRun /\ prev = NoRun /\ out = Idle /\ Parse(file) = Unparsable
                 /\ TraceStep /\ UNCHANGED <<vars, chainVars, out>>

ValidateStep == /\ out = Idle /\ pass = "closed" /\ Untapped
                /\ Next /\ UNCHANGED <<chainVars, traceVars, out>>

CommandNext == \/ ValidateStep \/ RunDiff \/ RunProbe \/ ValidateEach \/ SumUp
               \/ ReadCertificate \/ WalkCertificate \/ JudgeChain \/ TapAndExplain
CommandSpec == CommandInit /\ [][CommandNext]_commandVars
----------------------------------------------------------------------------
Ran(cmd) == out # Idle /\ out.cmd = cmd
CallDies(fs) == Outcome(fs) \in Dead
Breaking(fs, i) == {f.id : f \in {g \in fs : Breaks(g, i)}}

\* "No drift" (run_diff): when the active node's calls go through, so do the
\* standby's after a failover, but for what belongs to the node or is not
\* compared (a TLS profile that dangles on a leg other than Teams' is not), and
\* for a setting that is off on the standby and not carried by the active
\* node's export, which counts as off too.
NotCompared == {"C.CERT.EXPIRY", "C.CERT.FQDN_MISMATCH", "C.CERT.MISSING",
                "C.CERT.SELF_SIGNED", "C.CERT.CHAIN_INVALID", "C.CERT.UNTRUSTED_ANCHOR",
                "C.TLS.CIPHER_NOT_ALLOWED", "B.SIP.IDENTITY_IS_IP", "D.NAT.NO_PUBLIC_IP",
                "D.NAT.PRIVATE_ADVERTISED", "G.CLASS.UNCLASSIFIED", "G.ROUTE.NO_FROM_TEAMS",
                "G.ROUTE.NO_TO_TEAMS", "A.SEM.DANGLING_TLS"}
UnknownAsOff(at, st) == \/ at.srtp = "?" /\ st.srtp = "off"
                        \/ at.tls.mtls = "?" /\ st.tls.mtls = "off"
                        \/ ~at.carried /\ st.carried
NoDriftNoOutage ==
  Ran("diff") /\ out.exit = 0 /\ out.drift = {} /\ ~CallDies(out.ours) /\ CallDies(out.theirs) =>
    \/ \E i \in 1..4 : Breaking(out.theirs, i) \cap NotCompared # {}
    \/ UnknownAsOff(Teams(Parse(file)), Teams(Parse(out.other)))

\* "Same check IDs as the local validator, so the free and paid tools never
\* disagree" (grade_endpoint).  On the leaf the probe finds what validate finds,
\* at least as severe, unless the leaf has no EKUs at all; and more only on the
\* one day its clock is ahead, or when the configuration has no name to check.
LeafIds == {"C.CERT.EXPIRY", "C.CERT.EKU_NO_SERVERAUTH", "C.CERT.FQDN_MISMATCH"}
Severity(f) == CASE f.sev = "INFO" -> 0 [] f.sev = "LOW" -> 1 [] f.sev = "MEDIUM" -> 2
                 [] f.sev = "HIGH" -> 3 [] f.sev = "CRITICAL" -> 4
LeafFaultsAgree ==
  Ran("probe") /\ out.hs.reachable =>
    LET inside  == {f \in out.ours : f.id \in LeafIds}
        outside == {f \in Issues(out.hs) : f.id \in LeafIds}
    IN  /\ \A f \in inside : \/ \E g \in outside : g.id = f.id /\ Severity(g) >= Severity(f)
                             \/ f.id = "C.CERT.EKU_NO_SERVERAUTH" /\ out.hs.leaf.ekus = {}
        /\ \A g \in outside : \/ g.id \in Ids(inside)
                              \/ g.id = "C.CERT.EXPIRY" /\ out.hs.left = WarnDays + 1
                              \/ g.id = "C.CERT.FQDN_MISMATCH" /\ Parse(file).fqdn = "none"

\* A probe that passes (exit 0, grade A or B) excludes that calls die at TLS for
\* the leaf itself: what it cannot see is the trust store, mTLS and the chain,
\* and it forgives the cipher.
UnseenByProbe == {"C.CA.ROOT_MISSING", "C.TLS.MTLS_DISABLED", "C.CERT.SELF_SIGNED",
                  "C.CERT.CHAIN_INVALID", "C.CERT.UNTRUSTED_ANCHOR", "C.TLS.CIPHER_NOT_ALLOWED"}
PassingEdgeLives ==
  Ran("probe") /\ out.grade \in {"A", "B"} =>
    Breaking(out.ours, 1) \subseteq UnseenByProbe

\* An SBC that is ready for the CA migration, by the fleet command or by the
\* executive report, which sort the findings by tables of their own, completes
\* the handshake, unless its chain ends outside Microsoft's roots (MEDIUM).
ReadyConnects ==
  Ran("fleet") => \A f \in DOMAIN out.rows :
    LET fs == out.rows[f].findings IN
    (out.rows[f].ready \/ ~NotReady(fs)) => Breaking(fs, 1) \subseteq {"C.CERT.UNTRUSTED_ANCHOR"}

\* "Tenants sharing one carrier cert share its fate" (_tenant_analysis): when
\* the fault is the certificate's own, no tenant that presents the same one is
\* ready, and all of them are at risk.
SharedFate ==
  Ran("fleet") => \A f, g \in DOMAIN out.rows :
    LET severe   == Ids({x \in out.rows[f].findings : Severe(x)})
        ownFault == {"C.CERT.EXPIRY", "C.CERT.EKU_NO_SERVERAUTH"}
    IN  f # g /\ Unnamed \notin {out.rows[f].cn, out.rows[g].cn} =>
          (LeafOf(Parse(f)) = LeafOf(Parse(g)) /\ severe \cap ownFault # {} =>
             ~out.rows[g].ready /\ {f, g} \subseteq out.atRisk)

\* A compliance report that shows nothing HIGH or CRITICAL in any family of the
\* framework hides no call that dies at TLS, nor in the media but for FINRA's,
\* which maps no media finding; calls that die in between are nobody's family.
ReportShowsOutage ==
  Judged /\ outcome \in Dead => \A fw \in DOMAIN Families :
    \/ \E f \in OpenFindings(findings, fw) : Severe(f)
    \/ DiesAt(findings) \in {2, 3} \/ (fw = "finra" /\ DiesAt(findings) = 4)
    \/ "C.CERT.UNTRUSTED_ANCHOR" \in Ids(findings)

\* Access lists are evaluated top-down, the first match wins: a rule that is
\* reported as shadowed can be taken out and no peer notices, and what it was
\* to decide is decided the other way unless a rule before it said the same.
Traffic == [plane : {"signaling", "media"}, ver : {4, 6}, net : {"far", "wide", "tight"}]
Matches(r, p) == /\ r.ver = p.ver /\ PlaneCovers(r.plane, p.plane)
                 /\ r.net = "any" \/ NetCovers(r.net, p.net)
Decides(acls, i, p) == Matches(acls[i], p) /\ \A j \in 1..(i-1) : ~Matches(acls[j], p)
Decision(acls, p) == IF \E i \in DOMAIN acls : Decides(acls, i, p)
                     THEN acls[CHOOSE i \in DOMAIN acls : Decides(acls, i, p)].action
                     ELSE "permit"
Shadows == {i \in DOMAIN config.acls :
              \E f \in findings : f.id \in {"S.ACL.SHADOWED_DENY", "S.ACL.SHADOWED_PERMIT"} /\ f.at = i}
ShadowedIsDead ==
  Judged => \A i \in Shadows, p \in Traffic :
    LET acls == config.acls IN
    /\ Decision(RemoveAt(acls, i), p) = Decision(acls, p)
    /\ Matches(acls[i], p) /\ (\A j \in 1..(i-1) : Matches(acls[j], p) => acls[j].action # acls[i].action)
         => Decision(acls, p) # acls[i].action

\* Certificates that signed nothing on the way, a rekeyed sibling or a forged
\* root, wherever they are in the file, change nothing: when those that did sign
\* have different names, the chain is called anchored exactly when they lead to
\* a root of those the bundle demands, or to any when the trust store cannot be
\* seen; but a file with a root alone is self-signed.  The two walks over one
\* file agree: a chain that verifies is complete.
AnchorsAt(i, required) ==
  /\ SelfSigned(bundle[i]) /\ (i = 1 => Len(bundle) > 1)
  /\ required = {} \/ Fingerprint(bundle[i]) \in required
RootRecognized ==
  Ran("inspect") => LET reached == Reached IN
    /\ ending \in {"root", "badRoot"} => complete
    /\ (\A i, j \in reached : bundle[i].subject = bundle[j].subject => i = j) =>
      ("C.CERT.CHAIN_ANCHORED" \in Ids(out.findings) <=>
         \E i \in reached : AnchorsAt(i, Demanded(Teams(Parse(file)).tls)))
=============================================================================
