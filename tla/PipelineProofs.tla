--------------------------- MODULE PipelineProofs ---------------------------
(***************************************************************************)
(* Theorems about ValidationPipeline, for every set of files and every     *)
(* parser: no bound on interfaces, realms, rules or findings.              *)
(***************************************************************************)
EXTENDS ValidationPipeline, FiniteSetTheorems, WellFoundedInduction, TLAPS

\* A run reports what the validators, the score and the simulation compute.
FindingsInv == phase \in {"score", "simulate", "gate"} \/ Judged => findings = AllFindings(config)
VerdictInv  == phase \in {"simulate", "gate"} \/ Judged => verdict = Verdict(findings)
OutcomeInv  == phase = "gate" \/ Judged => outcome = Outcome(findings)
Faithful    == FindingsInv /\ VerdictInv /\ OutcomeInv

\* The tables of the validators and of the call simulation agree on a finding.
Grave(f) == f.sev \in {"HIGH", "CRITICAL"}
Fatal(f)  == \E i \in 1..4 : Breaks(f, i)
Slows(f)  == \E i \in 1..4 : Warns(f, i)
Calibrated(f) == /\ Fatal(f) => Grave(f) \/ f.id \in LenientStops
                 /\ Grave(f) => Fatal(f) \/ Slows(f) \/ f.id \in UnseenByCall

LEMMA StopsAre == \A f : Fatal(f) <=>
  \/ f.id \in TlsHardStop
  \/ f.id = "C.CERT.EXPIRY" /\ f.sev = "CRITICAL"
  \/ f.id \in SipHardStop \/ f.id \in SdpHardStop \/ f.id \in MediaHardStop
BY DEF Fatal, Breaks, HardStops

LEMMA SlowsAre == \A f : Slows(f) <=>
  \/ f.id \in TlsWarn
  \/ f.id = "C.CERT.EXPIRY" /\ f.sev # "CRITICAL"
  \/ f.id \in SipWarn \/ f.id \in SdpWarn \/ f.id \in MediaWarn
BY DEF Slows, Warns, Warnings

\* What a check reports carries the id and the severity of the check.
LEMMA EachIs == ASSUME NEW places, NEW id, NEW sev, NEW f \in Each(places, id, sev)
                PROVE  f.id = id /\ f.sev = sev
BY DEF Each
LEMMA WhenIs == ASSUME NEW cond, NEW id, NEW sev, NEW f \in When(cond, id, sev)
                PROVE  f.id = id /\ f.sev = sev
BY EachIs DEF When

\* A check reports when its condition holds.
LEMMA InWhen == ASSUME NEW cond, NEW id, NEW sev
                PROVE  \A f : f \in When(cond, id, sev) <=> cond /\ f = [id |-> id, sev |-> sev, at |-> 0]
BY DEF When, Each

LEMMA InEach == ASSUME NEW places, NEW id, NEW sev
                PROVE  \A f : f \in Each(places, id, sev) <=>
                         \E i \in places : f = [id |-> id, sev |-> sev, at |-> i]
BY DEF Each

\* A set of places that is not empty has a first one.
LEMMA FirstPlace ==
  ASSUME NEW places \in SUBSET Nat, places # {}
  PROVE  \E i \in places : \A j \in places : i <= j
<1>1. PICK i \in places : \A j \in places : ~ (<<j, i>> \in OpToRel(<, Nat))
  BY NatLessThanWellFounded, WFMin
<1>2. \A j \in places : ~ (j < i)
  BY <1>1 DEF OpToRel
<1> QED
  BY <1>2

(* The tables, validator by validator. *)

LEMMA SyntaxCalibrated == ASSUME NEW c, NEW f \in SyntaxSemantic(c) PROVE Calibrated(f)
<1>1. \/ f.id \in {"A.STRUCT.NO_SIP_INTERFACES", "A.SEM.DANGLING_TLS"} /\ f.sev = "HIGH"
      \/ f.id \in {"A.SEM.MISSING_FQDN", "A.SYN.FQDN_FORMAT", "A.SEM.DUP_INTERFACE"} /\ f.sev = "MEDIUM"
  BY EachIs, WhenIs DEF SyntaxSemantic
<1> QED
  BY <1>1, StopsAre, SlowsAre DEF Calibrated, Grave, LenientStops, UnseenByCall, TlsHardStop,
     SipHardStop, SdpHardStop, MediaHardStop, TlsWarn, SipWarn, SdpWarn, MediaWarn

LEMMA InteropCalibrated == ASSUME NEW c, NEW f \in Interop(c) PROVE Calibrated(f)
<1>1. \/ f.id \in {"B.SIP.TRANSPORT", "B.SIP.CONTACT_FQDN", "B.SIP.IDENTITY_IS_IP"} /\ f.sev = "HIGH"
      \/ f.id \in {"B.SIP.OPTIONS_KEEPALIVE", "B.SIP.OPTIONS_INTERVAL"} /\ f.sev = "MEDIUM"
      \/ f.id \in {"B.SIP.NO_NORMALIZATION", "B.IFACE.NO_TEAMS"} /\ f.sev = "MEDIUM"
      \/ f.id = "B.SIP.CARRIER_NO_KEEPALIVE" /\ f.sev = "INFO"
  <2>1. \/ f \in When(c.fqdn = "ip", "B.SIP.IDENTITY_IS_IP", "HIGH")
        \/ f \in TeamsInterop(c, Teams(c))
        \/ f \in When(TRUE, "B.IFACE.NO_TEAMS", "MEDIUM")
    BY DEF Interop
  <2>2. CASE f \in TeamsInterop(c, Teams(c))
    BY <2>2, WhenIs DEF TeamsInterop
  <2> QED
    BY <2>1, <2>2 DEF When, Each
<1> QED
  BY <1>1, StopsAre, SlowsAre DEF Calibrated, Grave, LenientStops, UnseenByCall, TlsHardStop,
     SipHardStop, SdpHardStop, MediaHardStop, TlsWarn, SipWarn, SdpWarn, MediaWarn

LEMMA TlsPolicyCalibrated == ASSUME NEW x, NEW f \in TlsPolicy(x) PROVE Calibrated(f)
<1>1. \/ f.id = "C.TLS.WEAK_VERSION" /\ f.sev = "HIGH"
      \/ f.id = "C.TLS.CIPHER_NOT_ALLOWED" /\ f.sev = "CRITICAL"
  BY EachIs, WhenIs DEF TlsPolicy
<1> QED
  BY <1>1, StopsAre, SlowsAre DEF Calibrated, Grave, LenientStops, UnseenByCall, TlsHardStop,
     SipHardStop, SdpHardStop, MediaHardStop, TlsWarn, SipWarn, SdpWarn, MediaWarn

LEMMA ChainCalibrated == ASSUME NEW k, NEW r, NEW f \in Chain(k, r) PROVE Calibrated(f)
<1>1. \/ f.id \in {"C.CERT.SELF_SIGNED", "C.CERT.CHAIN_INVALID"} /\ f.sev = "HIGH"
      \/ f.id \in {"C.CERT.CHAIN_INCOMPLETE", "C.CERT.UNTRUSTED_ANCHOR"} /\ f.sev = "MEDIUM"
      \/ f.id = "C.CERT.CHAIN_ANCHORED" /\ f.sev = "INFO"
  BY EachIs, WhenIs DEF Chain
<1> QED
  BY <1>1, StopsAre, SlowsAre DEF Calibrated, Grave, LenientStops, UnseenByCall, TlsHardStop,
     SipHardStop, SdpHardStop, MediaHardStop, TlsWarn, SipWarn, SdpWarn, MediaWarn

LEMMA LeafCalibrated == ASSUME NEW k, NEW c, NEW r, NEW f \in LeafCert(k, c, r) PROVE Calibrated(f)
<1>1. \/ f.id = "C.CERT.DEEP_INSPECTED" /\ f.sev = "INFO"
      \/ f.id \in {"C.CERT.DEEP_UNAVAILABLE", "C.CERT.EKU_DUALUSE", "C.CERT.ISSUER_PROGRAM_UNVERIFIED"}
           /\ f.sev = "LOW"
      \/ f.id \in {"C.CERT.EKU_NO_SERVERAUTH", "C.CERT.FQDN_MISMATCH"} /\ f.sev = "HIGH"
      \/ f.id = "C.CERT.EXPIRY" /\ f.sev \in {"CRITICAL", "MEDIUM"}
      \/ f.id = "C.CERT.CHAIN_INCOMPLETE" /\ f.sev = "MEDIUM"
      \/ f \in Chain(k, r)
  BY EachIs, WhenIs DEF LeafCert, Inspection, Usage, Expiry
<1>2. CASE f \in Chain(k, r)
  BY <1>2, ChainCalibrated
<1>3. CASE f \notin Chain(k, r)
  BY <1>1, <1>3, StopsAre, SlowsAre DEF Calibrated, Grave, LenientStops, UnseenByCall, TlsHardStop,
     SipHardStop, SdpHardStop, MediaHardStop, TlsWarn, SipWarn, SdpWarn, MediaWarn
<1> QED
  BY <1>2, <1>3

LEMMA ContextCalibrated == ASSUME NEW c, NEW t, NEW x, NEW f \in Context(c, t, x) PROVE Calibrated(f)
<1>1. \/ f.id \in {"C.TLS.MTLS_DISABLED", "C.SRTP.DISABLED"} /\ f.sev = "HIGH"
      \/ f.id = "C.CA.TRUST_STORE_UNAVAILABLE" /\ f.sev = "LOW"
      \/ f.id = "C.CA.ROOT_MISSING" /\ f.sev = "CRITICAL"
      \/ f.id = "C.SRTP.MEDIA_TRUST_UNVERIFIED" /\ f.sev = "INFO"
      \/ f.id = "C.PLATFORM.IOSXE_EKU_FLOOR" /\ f.sev \in {"LOW", "MEDIUM"}
      \/ f.id = "C.CERT.MISSING" /\ f.sev = "CRITICAL"
      \/ f.id = "C.CERT.UNAVAILABLE" /\ f.sev = "LOW"
      \/ f \in TlsPolicy(x)
      \/ \E r : f \in LeafCert(x.cert, c, r)
  BY EachIs, WhenIs DEF Context, MediaTrust, TrustStore, Platform, LeafFindings
<1>2. CASE f \in TlsPolicy(x)
  BY <1>2, TlsPolicyCalibrated
<1>3. CASE \E r : f \in LeafCert(x.cert, c, r)
  BY <1>3, LeafCalibrated
<1>4. CASE f \notin TlsPolicy(x) /\ ~ \E r : f \in LeafCert(x.cert, c, r)
  BY <1>1, <1>4, StopsAre, SlowsAre DEF Calibrated, Grave, LenientStops, UnseenByCall, TlsHardStop,
     SipHardStop, SdpHardStop, MediaHardStop, TlsWarn, SipWarn, SdpWarn, MediaWarn
<1> QED
  BY <1>2, <1>3, <1>4

LEMMA CaCalibrated == ASSUME NEW c, NEW f \in CaCompliance(c) PROVE Calibrated(f)
<1>1. \/ f.id = "C.IFACE.NO_TEAMS" /\ f.sev = "MEDIUM"
      \/ f.id = "C.TLS.NO_CONTEXT" /\ f.sev = "CRITICAL"
      \/ f \in Context(c, Teams(c), Teams(c).tls)
  BY WhenIs DEF CaCompliance
<1>2. CASE f \in Context(c, Teams(c), Teams(c).tls)
  BY <1>2, ContextCalibrated
<1>3. CASE f \notin Context(c, Teams(c), Teams(c).tls)
  BY <1>1, <1>3, StopsAre, SlowsAre DEF Calibrated, Grave, LenientStops, UnseenByCall, TlsHardStop,
     SipHardStop, SdpHardStop, MediaHardStop, TlsWarn, SipWarn, SdpWarn, MediaWarn
<1> QED
  BY <1>2, <1>3

LEMMA NatCalibrated == ASSUME NEW c, NEW f \in NatTraversal(c) PROVE Calibrated(f)
<1>1. \/ f.id \in {"D.MEDIA.NO_REALM", "D.NAT.NO_SYMMETRIC_RTP", "D.IPV6.MIXED_MODE"} /\ f.sev = "MEDIUM"
      \/ f.id = "D.NAT.NO_PUBLIC_IP" /\ f.sev = "HIGH"
      \/ f.id = "D.NAT.PRIVATE_ADVERTISED" /\ f.sev = "CRITICAL"
  BY SMTT(30) DEF NatTraversal, Each, When
<1> QED
  BY <1>1, StopsAre, SlowsAre DEF Calibrated, Grave, LenientStops, UnseenByCall, TlsHardStop,
     SipHardStop, SdpHardStop, MediaHardStop, TlsWarn, SipWarn, SdpWarn, MediaWarn

LEMMA CodecCalibrated == ASSUME NEW c, NEW f \in Codec(c) PROVE Calibrated(f)
<1>1. \/ f.id \in {"E.CODEC.NONE_OFFERED", "E.CODEC.NO_TEAMS_OVERLAP"} /\ f.sev = "HIGH"
      \/ f.id \in {"E.CODEC.AMRWB_NOT_OFFERED", "E.CODEC.WIDEBAND_DOWNGRADE"} /\ f.sev = "INFO"
      \/ f.id \in {"E.DTMF.INBAND_TEAMS", "E.CODEC.NO_CROSS_OVERLAP", "E.DTMF.INCONSISTENT"} /\ f.sev = "MEDIUM"
      \/ f.id = "E.DTMF.METHOD" /\ f.sev = "LOW"
  BY EachIs, WhenIs DEF Codec, TeamsCodec
<1> QED
  BY <1>1, StopsAre, SlowsAre DEF Calibrated, Grave, LenientStops, UnseenByCall, TlsHardStop,
     SipHardStop, SdpHardStop, MediaHardStop, TlsWarn, SipWarn, SdpWarn, MediaWarn

LEMMA RoutingCalibrated == ASSUME NEW c, NEW f \in Routing(c) PROVE Calibrated(f)
<1>1. \/ f.id \in {"G.CLASS.UNCLASSIFIED", "G.ROUTE.NO_FROM_TEAMS", "G.ROUTE.NO_TO_TEAMS"} /\ f.sev = "HIGH"
  BY EachIs, WhenIs DEF Routing
<1> QED
  BY <1>1, StopsAre, SlowsAre DEF Calibrated, Grave, LenientStops, UnseenByCall, TlsHardStop,
     SipHardStop, SdpHardStop, MediaHardStop, TlsWarn, SipWarn, SdpWarn, MediaWarn

LEMMA AccessCalibrated == ASSUME NEW c, NEW f \in AccessControl(c) PROVE Calibrated(f)
<1>1. \/ f.id \in {"S.ACL.NO_DEFAULT_DENY", "S.ACL.MEDIA_PLANE_MISSING",
                  "S.ACL.IPV6_NEGLECT", "S.ACL.SHADOWED_DENY"} /\ f.sev = "HIGH"
      \/ f.id \in {"S.ACL.BROAD_CIDR", "S.ACL.SHADOWED_PERMIT", "S.RTP.SOURCE_VALIDATION_OFF"} /\ f.sev = "MEDIUM"
  BY EachIs, WhenIs DEF AccessControl
<1> QED
  BY <1>1, StopsAre, SlowsAre DEF Calibrated, Grave, LenientStops, UnseenByCall, TlsHardStop,
     SipHardStop, SdpHardStop, MediaHardStop, TlsWarn, SipWarn, SdpWarn, MediaWarn

\* No finding is rated one way and simulated the other, whatever the configuration.
THEOREM AllCalibrated == \A c : \A f \in AllFindings(c) : Calibrated(f)
BY SyntaxCalibrated, InteropCalibrated, CaCalibrated, NatCalibrated, CodecCalibrated,
   RoutingCalibrated, AccessCalibrated DEF AllFindings

\* A call dies exactly when a finding stops it.
LEMMA DeadByFinding == ASSUME NEW fs PROVE Outcome(fs) \in Dead <=> \E f \in fs : Fatal(f)
<1>1. (\E i \in 1..4 : Broken(fs, i)) <=> \E f \in fs : Fatal(f)
  BY DEF Broken, Fatal
<1>2. CASE \E i \in 1..4 : Broken(fs, i)
  <2>1. \E i \in 1..4 : Broken(fs, i) /\ \A j \in 1..(i-1) : ~Broken(fs, j)
    BY <1>2
  <2>2. DiesAt(fs) \in 1..4
    BY <1>2, <2>1 DEF DiesAt
  <2> QED
    BY <1>1, <1>2, <2>2 DEF Outcome, DeathOutcome, Dead
<1>3. CASE ~ \E i \in 1..4 : Broken(fs, i)
  BY <1>1, <1>3 DEF Outcome, DiesAt, Dead
<1> QED
  BY <1>2, <1>3

LEMMA StableByFinding == ASSUME NEW fs, Outcome(fs) = "STABLE"
                         PROVE  \A f \in fs : ~Fatal(f) /\ ~Slows(f)
<1>1. \A f \in fs : ~Fatal(f)
  BY DeadByFinding DEF Dead
<1>2. ~ \E i \in 1..4 : Broken(fs, i)
  BY <1>1 DEF Broken, Fatal
<1>3. ~ \E i \in 1..4 : Fragile(fs, i)
  BY <1>2 DEF Outcome, DiesAt
<1> QED
  BY <1>1, <1>3 DEF Fragile, Slows

LEMMA PassIsMild == ASSUME NEW fs, Verdict(fs) = "PASS" PROVE \A f \in fs : ~Grave(f)
BY DEF Verdict, Has, Grave

\* The verdict, the prediction and the findings of a run belong together.
THEOREM RunsFaithful == Spec => []Faithful
<1> USE DEF Faithful, FindingsInv, VerdictInv, OutcomeInv, Judged
<1>1. Init => Faithful
  BY DEF Init, FreshRun
<1>2. Faithful /\ [Next]_vars => Faithful'
  <2> SUFFICES ASSUME Faithful, [Next]_vars PROVE Faithful'
    OBVIOUS
  <2>1. CASE ParseConfig
    BY <2>1 DEF ParseConfig, report, edits
  <2>2. CASE Validate
    BY <2>2 DEF Validate, edits
  <2>3. CASE Score
    BY <2>3 DEF Score, edits
  <2>4. CASE Simulate
    BY <2>4 DEF Simulate, edits
  <2>5. ASSUME NEW failOn \in {"block", "review"}, Gate(failOn) PROVE Faithful'
    BY <2>5 DEF Gate, report, edits
  <2>6. CASE Repair \/ Complete \/ Break
    BY <2>6 DEF Repair, Complete, Break, Edit
  <2>7. CASE UNCHANGED vars
    BY <2>7 DEF vars
  <2> QED
    BY <2>1, <2>2, <2>3, <2>4, <2>5, <2>6, <2>7 DEF Next
<1> QED
  BY <1>1, <1>2, PTL DEF Spec

\* The gate lets no call through that is predicted to die, but for the two
\* lenient stops.
THEOREM DeadCallsAreGated == Spec => []DeadCallGated
<1>1. Faithful => DeadCallGated
  <2> SUFFICES ASSUME Faithful, Judged, outcome \in Dead, verdict = "PASS"
               PROVE  Ids(findings) \cap LenientStops # {}
    BY DEF DeadCallGated
  <2>1. findings = AllFindings(config) /\ Verdict(findings) = "PASS" /\ Outcome(findings) \in Dead
    BY DEF Faithful, FindingsInv, VerdictInv, OutcomeInv
  <2>2. PICK f \in findings : Fatal(f)
    BY <2>1, DeadByFinding
  <2>3. ~Grave(f)
    BY <2>1, PassIsMild
  <2>4. f.id \in LenientStops
    BY <2>1, <2>2, <2>3, AllCalibrated DEF Calibrated
  <2> QED
    BY <2>4 DEF Ids
<1> QED
  BY <1>1, RunsFaithful, PTL

\* A prediction of STABLE overlooks only what no call notices.
THEOREM StableCallsAreUngated == Spec => []StableIsUngated
<1>1. Faithful => StableIsUngated
  <2> SUFFICES ASSUME Faithful, Judged, outcome = "STABLE", NEW f \in findings, Grave(f)
               PROVE  f.id \in UnseenByCall
    BY DEF StableIsUngated, Grave
  <2>1. findings = AllFindings(config) /\ Outcome(findings) = "STABLE"
    BY DEF Faithful, FindingsInv, OutcomeInv
  <2>2. ~Fatal(f) /\ ~Slows(f)
    BY <2>1, StableByFinding
  <2> QED
    BY <2>1, <2>2, AllCalibrated DEF Calibrated
<1> QED
  BY <1>1, RunsFaithful, PTL

----------------------------------------------------------------------------
\* Every validator returns finitely many findings, whatever the configuration:
\* what the verdict counts is a number.
Counted(fs) == IsFiniteSet(fs) /\ \A f \in fs : f.sev \in Severities

LEMMA UnionCounted == ASSUME NEW A, NEW B, Counted(A), Counted(B) PROVE Counted(A \cup B)
BY FS_Union DEF Counted

LEMMA EachCounted == ASSUME NEW places, IsFiniteSet(places), NEW id, NEW sev \in Severities
                     PROVE  Counted(Each(places, id, sev))
<1> DEFINE at == [i \in places |-> [id |-> id, sev |-> sev, at |-> i]]
<1>1. at \in Surjection(places, Each(places, id, sev))
  BY DEF Surjection, Each
<1>2. IsFiniteSet(Each(places, id, sev))
  BY <1>1, FS_Surjection
<1> QED
  BY <1>2 DEF Counted, Each

LEMMA WhenCounted == ASSUME NEW cond, NEW id, NEW sev \in Severities
                     PROVE  Counted(When(cond, id, sev))
<1>1. IsFiniteSet({0})
  BY FS_Singleton
<1>2. Counted(Each({0}, id, sev))
  BY <1>1, EachCounted
<1>3. Counted({})
  BY FS_EmptySet DEF Counted
<1>4. CASE cond
  BY <1>2, <1>4 DEF When
<1>5. CASE ~cond
  BY <1>3, <1>5 DEF When
<1> QED
  BY <1>4, <1>5

LEMMA TlsPolicyCounted == ASSUME NEW x PROVE Counted(TlsPolicy(x))
BY WhenCounted, UnionCounted DEF TlsPolicy, Severities

LEMMA ChainCounted == ASSUME NEW k, NEW r PROVE Counted(Chain(k, r))
BY WhenCounted, UnionCounted DEF Chain, Severities

LEMMA LeafCounted == ASSUME NEW k, NEW c, NEW r PROVE Counted(LeafCert(k, c, r))
<1>1. Counted(Inspection(k)) /\ Counted(Usage(k)) /\ Counted(Expiry(k))
  BY WhenCounted, UnionCounted DEF Inspection, Usage, Expiry, Severities
<1> QED
  BY <1>1, WhenCounted, UnionCounted, ChainCounted DEF LeafCert, Severities

LEMMA ContextCounted == ASSUME NEW c, NEW t, NEW x PROVE Counted(Context(c, t, x))
<1>1. Counted(LeafFindings(x, c, Demanded(x)))
  BY WhenCounted, UnionCounted, LeafCounted DEF LeafFindings, Severities
<1>2. Counted(MediaTrust(t, x)) /\ Counted(TrustStore(x)) /\ Counted(Platform(c))
  BY WhenCounted, UnionCounted DEF MediaTrust, TrustStore, Platform, Severities
<1> QED
  BY <1>1, <1>2, WhenCounted, UnionCounted, TlsPolicyCounted DEF Context, Severities

LEMMA CaCounted == ASSUME NEW c PROVE Counted(CaCompliance(c))
BY WhenCounted, ContextCounted DEF CaCompliance, Severities

LEMMA InteropCounted == ASSUME NEW c PROVE Counted(Interop(c))
<1>1. Counted(TeamsInterop(c, Teams(c)))
  BY WhenCounted, UnionCounted, ZenonT(60) DEF TeamsInterop, Severities
<1> QED
  BY <1>1, WhenCounted, UnionCounted DEF Interop, Severities

LEMMA RoutingCounted == ASSUME NEW c PROVE Counted(Routing(c))
<1>1. Counted({})
  BY FS_EmptySet DEF Counted
<1> QED
  BY <1>1, WhenCounted, UnionCounted DEF Routing, Severities

LEMMA CodecCounted == ASSUME NEW c PROVE Counted(Codec(c))
<1>1. Counted({})
  BY FS_EmptySet DEF Counted
<1>2. Counted(TeamsCodec(Teams(c)))
  BY WhenCounted, UnionCounted DEF TeamsCodec, Severities
<1> QED
  BY <1>1, <1>2, WhenCounted, UnionCounted DEF Codec, Severities

LEMMA DomainFinite == ASSUME NEW S, NEW s \in Seq(S), NEW D \in SUBSET DOMAIN s PROVE IsFiniteSet(D)
<1>1. DOMAIN s = 1..Len(s) /\ Len(s) \in Nat
  OBVIOUS
<1>2. IsFiniteSet(DOMAIN s)
  BY <1>1, FS_Interval
<1> QED
  BY <1>2, FS_Subset

LEMMA SyntaxCounted == ASSUME NEW c \in NormalizedConfig PROVE Counted(SyntaxSemantic(c))
<1> DEFINE faces    == DOMAIN c.ifaces
           same     == {j \in faces : \E k \in faces \ {j} : c.ifaces[k].name = c.ifaces[j].name}
           names    == {c.ifaces[i].name : i \in same}
           dangling == {i \in faces : c.ifaces[i].transport = "tls" /\ c.ifaces[i].tls = NoContext}
<1>1. c.ifaces \in Seq(SipInterface)
  BY DEF NormalizedConfig
<1>2. IsFiniteSet(same) /\ IsFiniteSet(dangling)
  BY <1>1, DomainFinite
<1>3. IsFiniteSet(names)
  <2>1. [i \in same |-> c.ifaces[i].name] \in Surjection(same, names)
    BY DEF Surjection
  <2> QED
    BY <1>2, <2>1, FS_Surjection
<1>4. Counted(Each(names, "A.SEM.DUP_INTERFACE", "MEDIUM"))
  BY <1>3, EachCounted DEF Severities
<1>5. Counted(Each(dangling, "A.SEM.DANGLING_TLS", "HIGH"))
  BY <1>2, EachCounted DEF Severities
<1> QED
  BY <1>4, <1>5, WhenCounted, UnionCounted DEF SyntaxSemantic, Severities

LEMMA NatCounted == ASSUME NEW c \in NormalizedConfig PROVE Counted(NatTraversal(c))
<1> DEFINE realms  == DOMAIN c.realms
           public  == {i \in realms : c.realms[i].role # "internal"}
           hidden  == {i \in public : c.realms[i].advertised = "?" /\ ~LocalPublic(c.realms[i])}
           private == {i \in public : c.realms[i].advertised = "private4"}
           fixed   == {i \in realms : c.realms[i].symmetric = "off"}
<1>1. c.realms \in Seq(MediaRealm)
  BY DEF NormalizedConfig
<1>2. IsFiniteSet(hidden) /\ IsFiniteSet(private) /\ IsFiniteSet(fixed)
  BY <1>1, DomainFinite
<1>3. /\ Counted(Each(hidden, "D.NAT.NO_PUBLIC_IP", "HIGH"))
      /\ Counted(Each(private, "D.NAT.PRIVATE_ADVERTISED", "CRITICAL"))
      /\ Counted(Each(fixed, "D.NAT.NO_SYMMETRIC_RTP", "MEDIUM"))
  BY <1>2, EachCounted DEF Severities
<1> QED
  BY <1>3, WhenCounted, UnionCounted DEF NatTraversal, Severities

LEMMA AccessCounted == ASSUME NEW c \in NormalizedConfig PROVE Counted(AccessControl(c))
<1> DEFINE rules   == DOMAIN c.acls
           permits == {i \in rules : c.acls[i].action = "permit"}
           shadows == {i \in rules : Shadowed(c.acls, i)}
           broad   == {i \in permits : c.acls[i].net \in {"any", "wide"}}
<1>1. c.acls \in Seq(AccessControlEntry)
  BY DEF NormalizedConfig
<1>2. IsFiniteSet(broad) /\ IsFiniteSet(shadows \cap (rules \ permits)) /\ IsFiniteSet(shadows \cap permits)
  BY <1>1, DomainFinite
<1>3. /\ Counted(Each(broad, "S.ACL.BROAD_CIDR", "MEDIUM"))
      /\ Counted(Each(shadows \cap (rules \ permits), "S.ACL.SHADOWED_DENY", "HIGH"))
      /\ Counted(Each(shadows \cap permits, "S.ACL.SHADOWED_PERMIT", "MEDIUM"))
  BY <1>2, EachCounted DEF Severities
<1> QED
  BY <1>3, WhenCounted, UnionCounted, ZenonT(60) DEF AccessControl, Severities

LEMMA AllCounted == \A c \in NormalizedConfig : Counted(AllFindings(c))
BY SyntaxCounted, InteropCounted, CaCounted, NatCounted, CodecCounted, RoutingCounted,
   AccessCounted, UnionCounted DEF AllFindings

LEMMA CountGrows == ASSUME NEW G, IsFiniteSet(G), NEW F \in SUBSET G, NEW sev
                    PROVE  /\ Count(F, sev) \in Nat /\ Count(G, sev) \in Nat
                           /\ Count(F, sev) <= Count(G, sev)
<1> DEFINE f == {x \in F : x.sev = sev}
           g == {x \in G : x.sev = sev}
<1>1. IsFiniteSet(g)
  BY FS_Subset
<1>2. f \in SUBSET g
  OBVIOUS
<1>3. IsFiniteSet(f) /\ Cardinality(f) <= Cardinality(g)
  BY <1>1, <1>2, FS_Subset
<1> QED
  BY <1>1, <1>3, FS_CardinalityType DEF Count

\* More findings never lower the score or better the verdict.
THEOREM MoreIsNeverBetter ==
  ASSUME NEW G, IsFiniteSet(G), NEW F \in SUBSET G
  PROVE  /\ RiskScore(F) \in 0..100
         /\ RiskScore(F) <= RiskScore(G)
         /\ Rank(Verdict(F)) <= Rank(Verdict(G))
<1>1. Raw(F) \in Nat /\ Raw(G) \in Nat /\ Raw(F) <= Raw(G)
  BY CountGrows DEF Raw
<1>2. RiskScore(F) \in 0..100 /\ RiskScore(G) \in 0..100 /\ RiskScore(F) <= RiskScore(G)
  BY <1>1 DEF RiskScore
<1>3. /\ Has(F, "CRITICAL") => Has(G, "CRITICAL")
      /\ Has(F, "HIGH") => Has(G, "HIGH")
  BY DEF Has
<1> QED
  BY <1>2, <1>3 DEF Verdict, Rank, BlockAt, ReviewAt

----------------------------------------------------------------------------
\* A run works on a normalized configuration, and what is remembered of the
\* previous one is what it reported.
ConfigInv == phase \notin {"parse", "exited"} \/ Judged => config \in NormalizedConfig
PrevInv   == change # "none" => prev.verdict = Verdict(prev.findings) /\ Counted(prev.findings)
IInv      == TypeOK /\ Faithful /\ ConfigInv /\ PrevInv

LEMMA OutcomeTyped == ASSUME NEW fs PROVE Outcome(fs) \in Outcomes
BY DEF Outcome, DeathOutcome, Outcomes, Dead

LEMMA ScoreTyped == ASSUME NEW fs, Counted(fs) PROVE RiskScore(fs) \in 0..100 /\ Verdict(fs) \in Verdicts
BY MoreIsNeverBetter DEF Counted, Verdict, Verdicts

\* The run types its variables and reports faithfully.
THEOREM RunsTyped == Spec => []IInv
<1> USE DEF Judged
<1>1. Init => TypeOK /\ ConfigInv /\ PrevInv
  BY DEF Init, FreshRun, TypeOK, ConfigInv, PrevInv, Phases, Verdicts, Outcomes
<1>2. Faithful /\ TypeOK /\ ConfigInv /\ PrevInv /\ [Next]_vars => (TypeOK /\ ConfigInv /\ PrevInv)'
  <2> SUFFICES ASSUME Faithful, TypeOK, ConfigInv, PrevInv, [Next]_vars
               PROVE  (TypeOK /\ ConfigInv /\ PrevInv)'
    OBVIOUS
  <2>1. CASE ParseConfig
    <3>1. config' \in NormalizedConfig \cup {Unparsable}
      BY <2>1, ParseAssumption DEF ParseConfig, TypeOK
    <3> QED
      BY <2>1, <3>1 DEF ParseConfig, report, edits, TypeOK, ConfigInv, PrevInv, Phases
  <2>2. CASE Validate
    <3>1. Counted(findings')
      BY <2>2, AllCounted DEF Validate, ConfigInv
    <3> QED
      BY <2>2, <3>1 DEF Validate, edits, TypeOK, ConfigInv, PrevInv, Phases, Counted
  <2>3. CASE Score
    <3>1. Counted(findings)
      BY <2>3, AllCounted DEF Score, ConfigInv, Faithful, FindingsInv
    <3> QED
      BY <2>3, <3>1, ScoreTyped DEF Score, edits, TypeOK, ConfigInv, PrevInv, Phases
  <2>4. CASE Simulate
    BY <2>4, OutcomeTyped DEF Simulate, edits, TypeOK, ConfigInv, PrevInv, Phases
  <2>5. ASSUME NEW failOn \in {"block", "review"}, Gate(failOn) PROVE (TypeOK /\ ConfigInv /\ PrevInv)'
    BY <2>5 DEF Gate, report, edits, TypeOK, ConfigInv, PrevInv, Phases
  <2>6. CASE Repair \/ Complete \/ Break
    <3>1. PICK how \in {"repair", "complete", "break"}, editions \in SUBSET Files : Edit(how, editions)
      BY <2>6, EditsAssumption DEF Repair, Complete, Break, TypeOK
    <3>2. TypeOK' /\ ConfigInv'
      BY <3>1 DEF Edit, TypeOK, ConfigInv, Phases, Verdicts, Outcomes
    <3>3. Judged
      BY <3>1 DEF Edit
    <3>4. Counted(findings) /\ verdict = Verdict(findings)
      BY <3>3, AllCounted DEF ConfigInv, Faithful, FindingsInv, VerdictInv
    <3>5. PrevInv'
      BY <3>1, <3>4 DEF Edit, PrevInv
    <3> QED
      BY <3>2, <3>5
  <2>7. CASE UNCHANGED vars
    BY <2>7 DEF vars, TypeOK, ConfigInv, PrevInv
  <2> QED
    BY <2>1, <2>2, <2>3, <2>4, <2>5, <2>6, <2>7 DEF Next
<1> QED
  BY <1>1, <1>2, RunsFaithful, PTL DEF Spec, IInv

\* TypeOK of ValidationPipeline.
THEOREM TypeCorrect == Spec => []TypeOK
<1>1. IInv => TypeOK
  BY DEF IInv
<1> QED
  BY <1>1, RunsTyped, PTL

\* A run that finds all its predecessor found, and maybe more, is rated no better.
THEOREM VerdictsAreMonotone == Spec => []VerdictMonotone
<1>1. IInv => VerdictMonotone
  <2> SUFFICES ASSUME IInv, Judged, change # "none", prev.findings \subseteq findings
               PROVE  Rank(prev.verdict) <= Rank(verdict)
    BY DEF VerdictMonotone
  <2>1. IsFiniteSet(findings) /\ verdict = Verdict(findings)
    BY AllCounted DEF IInv, Faithful, FindingsInv, VerdictInv, ConfigInv, Counted
  <2>2. prev.verdict = Verdict(prev.findings)
    BY DEF IInv, PrevInv
  <2> QED
    BY <2>1, <2>2, MoreIsNeverBetter
<1> QED
  BY <1>1, RunsTyped, PTL

\* The run before the present one, and the edit in between: history.
EditInv == change # "none" =>
  \E f \in Files : /\ Parse(f) # Unparsable /\ prev.config = Parse(f)
                   /\ prev.findings = AllFindings(Parse(f))
                   /\ prev.verdict = Verdict(AllFindings(Parse(f)))
                   /\ change = "complete" => file \in Completions(f)
                   /\ change = "repair" => file \in Repairs(f)
ReadInv == phase # "parse" => config = Parse(file)

THEOREM EditsAreHistory == Spec => [](EditInv /\ ReadInv)
<1>1. Init => EditInv /\ ReadInv
  BY DEF Init, FreshRun, EditInv, ReadInv
<1>2. IInv /\ EditInv /\ ReadInv /\ [Next]_vars => EditInv' /\ ReadInv'
  <2> SUFFICES ASSUME IInv, EditInv, ReadInv, [Next]_vars PROVE EditInv' /\ ReadInv'
    OBVIOUS
  <2>1. ASSUME UNCHANGED edits PROVE EditInv'
    BY <2>1 DEF EditInv, edits
  <2>2. CASE ParseConfig
    BY <2>1, <2>2 DEF ParseConfig, ReadInv, edits
  <2>3. CASE Validate \/ Score \/ Simulate \/ (\E failOn \in {"block", "review"} : Gate(failOn))
    BY <2>1, <2>3 DEF Validate, Score, Simulate, Gate, ReadInv, edits
  <2>4. CASE Repair \/ Complete \/ Break
    <3>1. PICK how, editions : Edit(how, editions) /\ how \in {"repair", "complete", "break"}
                               /\ (how = "complete" => editions = Completions(file))
                               /\ (how = "repair" => editions = Repairs(file))
      BY <2>4 DEF Repair, Complete, Break
    <3>2. /\ config # Unparsable /\ config = Parse(file) /\ findings = AllFindings(config)
          /\ verdict = Verdict(findings) /\ file \in Files /\ phase = "exited"
      BY <3>1 DEF Edit, ReadInv, IInv, Faithful, FindingsInv, VerdictInv, Judged, TypeOK
    <3>3. /\ prev' = [config |-> config, findings |-> findings, verdict |-> verdict]
          /\ change' = how /\ file' \in editions /\ phase' = "parse"
      BY <3>1 DEF Edit
    <3>4. /\ Parse(file) # Unparsable /\ prev'.config = Parse(file)
          /\ prev'.findings = AllFindings(Parse(file))
          /\ prev'.verdict = Verdict(AllFindings(Parse(file)))
          /\ change' = "complete" => file' \in Completions(file)
          /\ change' = "repair" => file' \in Repairs(file)
      BY <3>1, <3>2, <3>3
    <3>5. PICK g \in Files : g = file
      BY <3>2
    <3>6. EditInv'
      BY <3>4, <3>5 DEF EditInv
    <3> QED
      BY <3>3, <3>6 DEF ReadInv
  <2>5. CASE UNCHANGED vars
    BY <2>1, <2>5 DEF vars, edits, ReadInv
  <2> QED
    BY <2>2, <2>3, <2>4, <2>5 DEF Next
<1> QED
  BY <1>1, <1>2, RunsTyped, PTL DEF Spec
----------------------------------------------------------------------------
(* Which validator a finding comes from, by its id. *)

SyntaxIds == {"A.STRUCT.NO_SIP_INTERFACES", "A.SEM.MISSING_FQDN", "A.SYN.FQDN_FORMAT",
              "A.SEM.DUP_INTERFACE", "A.SEM.DANGLING_TLS"}
InteropIds == {"B.SIP.TRANSPORT", "B.SIP.OPTIONS_KEEPALIVE", "B.SIP.OPTIONS_INTERVAL",
               "B.SIP.CONTACT_FQDN", "B.SIP.CARRIER_NO_KEEPALIVE", "B.SIP.NO_NORMALIZATION",
               "B.SIP.IDENTITY_IS_IP", "B.IFACE.NO_TEAMS"}
ContextIds == {"C.TLS.MTLS_DISABLED", "C.SRTP.DISABLED", "C.SRTP.MEDIA_TRUST_UNVERIFIED",
               "C.TLS.WEAK_VERSION", "C.TLS.CIPHER_NOT_ALLOWED", "C.CA.TRUST_STORE_UNAVAILABLE",
               "C.CA.ROOT_MISSING", "C.PLATFORM.IOSXE_EKU_FLOOR"}
ChainIds == {"C.CERT.SELF_SIGNED", "C.CERT.CHAIN_INVALID", "C.CERT.CHAIN_INCOMPLETE",
             "C.CERT.UNTRUSTED_ANCHOR", "C.CERT.CHAIN_ANCHORED"}
CertIds  == {"C.CERT.DEEP_INSPECTED", "C.CERT.DEEP_UNAVAILABLE", "C.CERT.EKU_NO_SERVERAUTH",
             "C.CERT.EKU_DUALUSE", "C.CERT.EXPIRY", "C.CERT.FQDN_MISMATCH",
             "C.CERT.ISSUER_PROGRAM_UNVERIFIED"} \cup ChainIds
CaIds    == {"C.IFACE.NO_TEAMS", "C.TLS.NO_CONTEXT", "C.CERT.MISSING", "C.CERT.UNAVAILABLE"}
            \cup ContextIds \cup CertIds
NatIds   == {"D.MEDIA.NO_REALM", "D.NAT.NO_PUBLIC_IP", "D.NAT.PRIVATE_ADVERTISED",
             "D.NAT.NO_SYMMETRIC_RTP", "D.IPV6.MIXED_MODE"}
CodecIds == {"E.CODEC.NONE_OFFERED", "E.CODEC.NO_TEAMS_OVERLAP", "E.CODEC.AMRWB_NOT_OFFERED",
             "E.DTMF.INBAND_TEAMS", "E.CODEC.NO_CROSS_OVERLAP", "E.CODEC.WIDEBAND_DOWNGRADE",
             "E.DTMF.METHOD", "E.DTMF.INCONSISTENT"}
RoutingIds == {"G.CLASS.UNCLASSIFIED", "G.ROUTE.NO_FROM_TEAMS", "G.ROUTE.NO_TO_TEAMS"}
AccessIds  == {"S.ACL.NO_DEFAULT_DENY", "S.ACL.BROAD_CIDR", "S.ACL.MEDIA_PLANE_MISSING",
               "S.ACL.IPV6_NEGLECT", "S.ACL.SHADOWED_DENY", "S.ACL.SHADOWED_PERMIT",
               "S.RTP.SOURCE_VALIDATION_OFF"}

LEMMA ChainNames == \A k, r : \A f \in Chain(k, r) : f.id \in ChainIds
BY WhenIs DEF Chain, ChainIds
LEMMA LeafNames == \A k, c, r : \A f \in LeafCert(k, c, r) : f.id \in CertIds
BY ChainNames, WhenIs DEF LeafCert, Inspection, Usage, Expiry, CertIds, ChainIds
LEMMA ContextNames ==
  ASSUME NEW c, NEW t, NEW x, NEW f \in Context(c, t, x)
  PROVE  f.id \in ContextIds \/ f \in LeafFindings(x, c, Demanded(x))
BY WhenIs DEF Context, MediaTrust, TlsPolicy, TrustStore, Platform, ContextIds
LEMMA LeafFindingNames ==
  ASSUME NEW c, NEW x, NEW f \in LeafFindings(x, c, Demanded(x))
  PROVE  \/ x.cert # NoCert /\ f \in LeafCert(x.cert, c, Demanded(x)) /\ f.id \in CertIds
         \/ x.cert = NoCert /\ f.id \in {"C.CERT.MISSING", "C.CERT.UNAVAILABLE"}
BY LeafNames, WhenIs DEF LeafFindings
LEMMA CaNames == \A c : \A f \in CaCompliance(c) : f.id \in CaIds
<1> SUFFICES ASSUME NEW c, NEW f \in CaCompliance(c) PROVE f.id \in CaIds
  OBVIOUS
<1>1. f.id \in {"C.IFACE.NO_TEAMS", "C.TLS.NO_CONTEXT"} \/ f \in Context(c, Teams(c), Teams(c).tls)
  <2>1. CASE ~HasTeams(c)
    BY <2>1 DEF CaCompliance, When, Each
  <2>2. CASE HasTeams(c) /\ Teams(c).tls = NoContext
    BY <2>2 DEF CaCompliance, When, Each
  <2>3. CASE HasTeams(c) /\ Teams(c).tls # NoContext
    BY <2>3 DEF CaCompliance
  <2> QED
    BY <2>1, <2>2, <2>3
<1> QED
  BY <1>1, ContextNames, LeafFindingNames DEF CaIds
LEMMA SyntaxNames == \A c : \A f \in SyntaxSemantic(c) : f.id \in SyntaxIds
BY EachIs, WhenIs DEF SyntaxSemantic, SyntaxIds
LEMMA InteropNames == \A c : \A f \in Interop(c) : f.id \in InteropIds
<1> SUFFICES ASSUME NEW c, NEW f \in Interop(c) PROVE f.id \in InteropIds
  OBVIOUS
<1>1. CASE f \in TeamsInterop(c, Teams(c))
  BY <1>1, WhenIs DEF TeamsInterop, InteropIds
<1>2. CASE f \notin TeamsInterop(c, Teams(c))
  <2>1. f \in When(c.fqdn = "ip", "B.SIP.IDENTITY_IS_IP", "HIGH") \/ f \in When(TRUE, "B.IFACE.NO_TEAMS", "MEDIUM")
    BY <1>2 DEF Interop
  <2> QED
    BY <2>1 DEF When, Each, InteropIds
<1> QED
  BY <1>1, <1>2
LEMMA NatNames == \A c : \A f \in NatTraversal(c) : f.id \in NatIds
BY SMTT(30) DEF NatTraversal, Each, When, NatIds
LEMMA CodecNames == \A c : \A f \in Codec(c) : f.id \in CodecIds
<1>1. \A t : \A f \in TeamsCodec(t) : f.id \in CodecIds
  BY WhenIs DEF TeamsCodec, CodecIds
<1> QED
  BY <1>1, WhenIs DEF Codec, CodecIds
LEMMA RoutingNames == \A c : \A f \in Routing(c) : f.id \in RoutingIds
BY WhenIs DEF Routing, RoutingIds
LEMMA AccessNames == \A c : \A f \in AccessControl(c) : f.id \in AccessIds
BY EachIs, WhenIs DEF AccessControl, AccessIds

\* Which validator a finding comes from.
LEMMA WhoFound ==
  ASSUME NEW c, NEW f \in AllFindings(c)
  PROVE  /\ f.id \in SyntaxIds => f \in SyntaxSemantic(c)
         /\ f.id \in InteropIds => f \in Interop(c)
         /\ f.id \in CaIds => f \in CaCompliance(c)
         /\ f.id \in NatIds => f \in NatTraversal(c)
         /\ f.id \in CodecIds => f \in Codec(c)
         /\ f.id \in RoutingIds => f \in Routing(c)
         /\ f.id \in AccessIds => f \in AccessControl(c)
<1>1. \/ f \in SyntaxSemantic(c) /\ f.id \in SyntaxIds
      \/ f \in Interop(c) /\ f.id \in InteropIds
      \/ f \in CaCompliance(c) /\ f.id \in CaIds
      \/ f \in NatTraversal(c) /\ f.id \in NatIds
      \/ f \in Codec(c) /\ f.id \in CodecIds
      \/ f \in Routing(c) /\ f.id \in RoutingIds
      \/ f \in AccessControl(c) /\ f.id \in AccessIds
  BY SyntaxNames, InteropNames, CaNames, NatNames, CodecNames, RoutingNames, AccessNames
     DEF AllFindings
<1>2. /\ SyntaxIds \cap (InteropIds \cup CaIds \cup NatIds \cup CodecIds \cup RoutingIds \cup AccessIds) = {}
      /\ InteropIds \cap (CaIds \cup NatIds \cup CodecIds \cup RoutingIds \cup AccessIds) = {}
      /\ CaIds \cap (NatIds \cup CodecIds \cup RoutingIds \cup AccessIds) = {}
      /\ NatIds \cap (CodecIds \cup RoutingIds \cup AccessIds) = {}
      /\ CodecIds \cap (RoutingIds \cup AccessIds) = {}
      /\ RoutingIds \cap AccessIds = {}
  BY DEF SyntaxIds, InteropIds, CaIds, NatIds, CodecIds, RoutingIds, AccessIds, ContextIds, CertIds, ChainIds
<1> QED
  BY <1>1, <1>2

LEMMA FirstLeg ==
  ASSUME NEW c \in NormalizedConfig, NEW I \in SUBSET DOMAIN c.ifaces, I # {}
  PROVE  First(I) \in I
<1>1. c.ifaces \in Seq(SipInterface)
  BY DEF NormalizedConfig
<1>2. I \in SUBSET Nat
  BY <1>1
<1>3. \E i \in I : \A j \in I : i <= j
  BY <1>2, FirstPlace
<1> QED
  BY <1>3 DEF First

LEMMA TeamsTyped ==
  ASSUME NEW c \in NormalizedConfig, HasTeams(c)
  PROVE  Teams(c) \in SipInterface
<1> DEFINE I == {i \in DOMAIN c.ifaces : IsTeams(c.ifaces[i])}
<1>1. c.ifaces \in Seq(SipInterface)
  BY DEF NormalizedConfig
<1>2. I \in SUBSET Nat /\ I # {} /\ I \subseteq DOMAIN c.ifaces
  BY <1>1 DEF HasTeams
<1> HIDE DEF I
<1>3. \E i \in I : \A j \in I : i <= j
  BY <1>2, FirstPlace
<1>4. First(I) \in I
  BY <1>3 DEF First
<1>5. Teams(c) = c.ifaces[First(I)]
  BY DEF Teams, I
<1>6. First(I) \in DOMAIN c.ifaces
  BY <1>2, <1>4
<1> QED
  BY <1>1, <1>5, <1>6
----------------------------------------------------------------------------
(* Settings that are mended. *)

\* What is there for information only has no part in a verdict.
Judging(fs) == {f \in fs : f.sev # "INFO"}

LEMMA InfoIsFree ==
  ASSUME NEW F, IsFiniteSet(F), NEW G, Judging(G) \subseteq F
  PROVE  Rank(Verdict(G)) <= Rank(Verdict(F))
<1>1. \A sev \in Severities \ {"INFO"} :
        Count(G, sev) = Count(Judging(G), sev) /\ Has(G, sev) = Has(Judging(G), sev)
  <2> SUFFICES ASSUME NEW sev \in Severities \ {"INFO"}
               PROVE  Count(G, sev) = Count(Judging(G), sev) /\ Has(G, sev) = Has(Judging(G), sev)
    OBVIOUS
  <2>1. {f \in G : f.sev = sev} = {f \in Judging(G) : f.sev = sev}
    BY DEF Judging
  <2> QED
    BY <2>1 DEF Count, Has
<1>2. Raw(G) = Raw(Judging(G)) /\ Has(G, "CRITICAL") = Has(Judging(G), "CRITICAL")
      /\ Has(G, "HIGH") = Has(Judging(G), "HIGH")
  BY <1>1 DEF Raw, Severities
<1>3. Verdict(G) = Verdict(Judging(G))
  BY <1>2 DEF Verdict, RiskScore
<1> QED
  BY <1>3, MoreIsNeverBetter

\* Nothing is worse than a CRITICAL finding.
LEMMA CriticalIsWorst ==
  ASSUME NEW F, Has(F, "CRITICAL"), NEW G
  PROVE  Rank(Verdict(G)) <= Rank(Verdict(F))
BY DEF Verdict, Rank

\* A grave finding may give way to a MEDIUM one.
LEMMA ExchangeIsFree ==
  ASSUME NEW F, IsFiniteSet(F), NEW g \in F, Grave(g), NEW h, h.sev = "MEDIUM"
  PROVE  /\ IsFiniteSet((F \ {g}) \cup {h})
         /\ Rank(Verdict((F \ {g}) \cup {h})) <= Rank(Verdict(F))
<1> DEFINE E == (F \ {g}) \cup {h}
<1>1. IsFiniteSet(E)
  BY FS_RemoveElement, FS_AddElement
<1>2. CASE g.sev = "CRITICAL"
  BY <1>1, <1>2, CriticalIsWorst DEF Has
<1>3. CASE g.sev = "HIGH"
  <2> DEFINE S(fs, sev) == {f \in fs : f.sev = sev}
  <2>1. S(E, "LOW") = S(F, "LOW") /\ S(E, "CRITICAL") = S(F, "CRITICAL")
    BY <1>3
  <2>2. S(E, "HIGH") = S(F, "HIGH") \ {g} /\ g \in S(F, "HIGH") /\ IsFiniteSet(S(F, "HIGH"))
    BY <1>3, FS_Subset
  <2>3. S(E, "MEDIUM") = S(F, "MEDIUM") \cup {h} /\ IsFiniteSet(S(F, "MEDIUM"))
    BY <1>3, FS_Subset
  <2>4. \A fs, sev : Count(fs, sev) = Cardinality(S(fs, sev))
    BY DEF Count
  <2> HIDE DEF S, E
  <2>5. /\ Count(E, "LOW") = Count(F, "LOW") /\ Count(E, "CRITICAL") = Count(F, "CRITICAL")
        /\ Count(E, "HIGH") = Count(F, "HIGH") - 1
    BY <2>1, <2>2, <2>4, FS_RemoveElement
  <2>6. Count(E, "MEDIUM") \in {Count(F, "MEDIUM"), Count(F, "MEDIUM") + 1}
    BY <2>3, <2>4, FS_AddElement
  <2>7. \A sev : Count(F, sev) \in Nat /\ Count(E, sev) \in Nat
    BY <1>1, CountGrows
  <2>8. Raw(E) \in Nat /\ Raw(F) \in Nat /\ Raw(E) <= Raw(F)
    BY <2>5, <2>6, <2>7 DEF Raw
  <2>9. RiskScore(E) \in 0..100 /\ RiskScore(F) \in 0..100 /\ RiskScore(E) <= RiskScore(F)
    BY <2>8 DEF RiskScore
  <2>10. Has(E, "CRITICAL") => Has(F, "CRITICAL")
    BY <1>3 DEF Has, E
  <2>11. Has(F, "HIGH")
    BY <1>3 DEF Has
  <2>12. Rank(Verdict(E)) <= Rank(Verdict(F))
    BY <2>9, <2>10, <2>11 DEF Verdict, Rank, BlockAt, ReviewAt
  <2> QED
    BY <1>1, <2>12 DEF E
<1> QED
  BY <1>2, <1>3 DEF Grave

\* The leg to Teams and the one to the carrier are the same legs.
LEMMA RolesMended ==
  ASSUME NEW c \in NormalizedConfig, NEW d, MendedLegs(c, d)
  PROVE  /\ HasTeams(d) <=> HasTeams(c)
         /\ HasCarrier(d) <=> HasCarrier(c)
         /\ HasTeams(c) => MendedLeg(Teams(c), Teams(d))
         /\ HasCarrier(c) => MendedLeg(Carrier(c), Carrier(d))
<1> DEFINE I(e) == {i \in DOMAIN e.ifaces : IsTeams(e.ifaces[i])}
           J(e) == {i \in DOMAIN e.ifaces : IsCarrier(e.ifaces[i])}
<1>1. DOMAIN d.ifaces = DOMAIN c.ifaces /\ \A i \in DOMAIN c.ifaces : MendedLeg(c.ifaces[i], d.ifaces[i])
  BY DEF MendedLegs
<1>2. I(d) = I(c) /\ J(d) = J(c)
  BY <1>1 DEF MendedLeg, IsTeams, IsCarrier
<1>3. /\ Teams(c) = c.ifaces[First(I(c))] /\ Teams(d) = d.ifaces[First(I(d))]
      /\ Carrier(c) = c.ifaces[First(J(c))] /\ Carrier(d) = d.ifaces[First(J(d))]
  BY DEF Teams, Carrier
<1>4. /\ HasTeams(c) <=> I(c) # {}
      /\ HasTeams(d) <=> I(d) # {}
      /\ HasCarrier(c) <=> J(c) # {}
      /\ HasCarrier(d) <=> J(d) # {}
  BY DEF HasTeams, HasCarrier
<1>5. I(c) # {} => First(I(c)) \in DOMAIN c.ifaces
  BY FirstLeg
<1>6. J(c) # {} => First(J(c)) \in DOMAIN c.ifaces
  BY FirstLeg
<1> HIDE DEF I, J
<1> QED
  BY <1>1, <1>2, <1>3, <1>4, <1>5, <1>6

LEMMA SyntaxMended ==
  ASSUME NEW c \in NormalizedConfig, NEW d, MendedLegs(c, d), d.fqdn \in {c.fqdn, "name"}
  PROVE  SyntaxSemantic(d) \subseteq SyntaxSemantic(c)
<1> DEFINE twice(e) == {e.ifaces[i].name : i \in {j \in DOMAIN e.ifaces :
                          \E k \in DOMAIN e.ifaces \ {j} : e.ifaces[k].name = e.ifaces[j].name}}
           dangling(e) == {i \in DOMAIN e.ifaces : e.ifaces[i].transport = "tls" /\ e.ifaces[i].tls = NoContext}
<1>1. DOMAIN d.ifaces = DOMAIN c.ifaces
  BY DEF MendedLegs
<1>2. twice(d) \subseteq twice(c)
  <2> SUFFICES ASSUME NEW i \in DOMAIN d.ifaces, NEW k \in DOMAIN d.ifaces \ {i},
                      d.ifaces[k].name = d.ifaces[i].name
               PROVE  d.ifaces[i].name \in twice(c)
    OBVIOUS
  <2>1. c.ifaces[i].name = d.ifaces[i].name /\ c.ifaces[k].name = d.ifaces[k].name
    BY DEF MendedLegs
  <2> QED
    BY <1>1, <2>1
<1>3. dangling(d) \subseteq dangling(c)
  <2>1. \A i \in DOMAIN c.ifaces : MendedLeg(c.ifaces[i], d.ifaces[i])
    BY DEF MendedLegs
  <2> QED
    BY <1>1, <2>1 DEF MendedLeg
<1>4. \A e : SyntaxSemantic(e) =
        When(DOMAIN e.ifaces = {}, "A.STRUCT.NO_SIP_INTERFACES", "HIGH")
        \cup When(e.fqdn = "none", "A.SEM.MISSING_FQDN", "MEDIUM")
        \cup When(e.fqdn \in {"malformed", "ip"}, "A.SYN.FQDN_FORMAT", "MEDIUM")
        \cup Each(twice(e), "A.SEM.DUP_INTERFACE", "MEDIUM")
        \cup Each(dangling(e), "A.SEM.DANGLING_TLS", "HIGH")
  BY DEF SyntaxSemantic
<1> HIDE DEF twice, dangling
<1>5. /\ Each(twice(d), "A.SEM.DUP_INTERFACE", "MEDIUM") \subseteq Each(twice(c), "A.SEM.DUP_INTERFACE", "MEDIUM")
      /\ Each(dangling(d), "A.SEM.DANGLING_TLS", "HIGH") \subseteq Each(dangling(c), "A.SEM.DANGLING_TLS", "HIGH")
  BY <1>2, <1>3, InEach
<1>6. /\ When(d.fqdn = "none", "A.SEM.MISSING_FQDN", "MEDIUM")
           \subseteq When(c.fqdn = "none", "A.SEM.MISSING_FQDN", "MEDIUM")
      /\ When(d.fqdn \in {"malformed", "ip"}, "A.SYN.FQDN_FORMAT", "MEDIUM")
           \subseteq When(c.fqdn \in {"malformed", "ip"}, "A.SYN.FQDN_FORMAT", "MEDIUM")
  <2>1. /\ d.fqdn = "none" => c.fqdn = "none"
        /\ d.fqdn \in {"malformed", "ip"} => c.fqdn \in {"malformed", "ip"}
    OBVIOUS
  <2> QED
    BY <2>1 DEF When
<1> QED
  BY <1>1, <1>4, <1>5, <1>6

LEMMA InteropMended ==
  ASSUME NEW c \in NormalizedConfig, NEW d, MendedLegs(c, d), d.fqdn \in {c.fqdn, "name"},
         HasTeams(c), c.fqdn # "none"
  PROVE  Interop(d) \subseteq Interop(c)
<1>1. HasTeams(d) /\ (HasCarrier(d) <=> HasCarrier(c))
  BY RolesMended
<1>2. ASSUME NEW f \in TeamsInterop(d, Teams(d)) PROVE f \in TeamsInterop(c, Teams(c))
  <2> DEFINE t == Teams(c)
             u == Teams(d)
  <2>1. MendedLeg(t, u)
    BY RolesMended
  <2>2. HasCarrier(d) /\ Carrier(d).keepalive = "off" => HasCarrier(c) /\ Carrier(c).keepalive = "off"
    BY RolesMended DEF MendedLeg
  <2>3. (Bridging(d) /\ \A i \in DOMAIN d.ifaces : ~d.ifaces[i].normalized) =>
          Bridging(c) /\ \A i \in DOMAIN c.ifaces : ~c.ifaces[i].normalized
    <3>1. DOMAIN d.ifaces = DOMAIN c.ifaces
      BY DEF MendedLegs
    <3>2. \A i \in DOMAIN c.ifaces : d.ifaces[i].normalized \in {c.ifaces[i].normalized, TRUE}
      BY DEF MendedLegs, MendedLeg
    <3> QED
      BY <1>1, <3>1, <3>2 DEF Bridging
  <2> HIDE DEF t, u
  <2>4. /\ u.transport # RequiredTransport => t.transport # RequiredTransport
        /\ u.keepalive = "off" => t.keepalive = "off"
        /\ ~IntervalOk(u.interval) => ~IntervalOk(t.interval)
        /\ u.contact = "outside" /\ d.fqdn # "none" => t.contact = "outside" /\ c.fqdn # "none"
    BY <2>1 DEF MendedLeg, RequiredTransport
  <2> DEFINE raw(e) == Bridging(e) /\ \A i \in DOMAIN e.ifaces : ~e.ifaces[i].normalized
             mute(e) == HasCarrier(e) /\ Carrier(e).keepalive = "off"
  <2>5. \A e, x : TeamsInterop(e, x) =
          When(x.transport # RequiredTransport, "B.SIP.TRANSPORT", "HIGH")
          \cup When(x.keepalive = "off", "B.SIP.OPTIONS_KEEPALIVE", "MEDIUM")
          \cup When(~IntervalOk(x.interval), "B.SIP.OPTIONS_INTERVAL", "MEDIUM")
          \cup When(x.contact = "outside" /\ e.fqdn # "none", "B.SIP.CONTACT_FQDN", "HIGH")
          \cup When(mute(e), "B.SIP.CARRIER_NO_KEEPALIVE", "INFO")
          \cup When(raw(e), "B.SIP.NO_NORMALIZATION", "MEDIUM")
    BY DEF TeamsInterop
  <2>6. (mute(d) => mute(c)) /\ (raw(d) => raw(c))
    BY <2>2, <2>3
  <2> HIDE DEF raw, mute
  <2>7. f \in TeamsInterop(d, u)
    BY <1>2 DEF u
  <2>8. f \in TeamsInterop(c, t)
    BY <2>4, <2>5, <2>6, <2>7 DEF When
  <2> QED
    BY <2>8 DEF t
<1>3. d.fqdn = "ip" => c.fqdn = "ip"
  OBVIOUS
<1>4. When(d.fqdn = "ip", "B.SIP.IDENTITY_IS_IP", "HIGH") \subseteq When(c.fqdn = "ip", "B.SIP.IDENTITY_IS_IP", "HIGH")
  BY <1>3 DEF When
<1> QED
  BY <1>1, <1>2, <1>4 DEF Interop
\* What the SBC is called.
Named(c, d) == c.fqdn # "none" /\ d.fqdn \in {c.fqdn, "name"}

LEMMA LeafMended ==
  ASSUME NEW k, NEW l, MendedCert(k, l), NEW c, NEW d, Named(c, d), NEW r \in {{}, RequiredRoots}
  PROVE  Judging(LeafCert(l, d, r)) \subseteq LeafCert(k, c, r)
<1>1. /\ l.ekus \in {k.ekus, {"server"}} /\ l.covers \in {k.covers, TRUE} /\ l.expiry \in {k.expiry, "far"}
      /\ l.issuer \in {k.issuer, "program"} /\ l.chainComplete \in {k.chainComplete, "on"}
      /\ l.pem = k.pem /\ l.chain \in {k.chain} \cup (RequiredRoots \ ChainFaults)
  BY DEF MendedCert
<1>2. Inspection(l) = Inspection(k)
  BY <1>1 DEF Inspection
<1>3. Usage(l) \subseteq Usage(k)
  <2>1. CASE l.ekus = k.ekus
    BY <2>1 DEF Usage
  <2>2. CASE l.ekus = {"server"}
    <3>1. "server" \in l.ekus /\ l.ekus # {"server", "client"}
      <4>1. "client" \in {"server", "client"} /\ "client" \notin {"server"}
        OBVIOUS
      <4> QED
        BY <2>2, <4>1
    <3> QED
      BY <3>1 DEF Usage, When
  <2> QED
    BY <1>1, <2>1, <2>2
<1>4. Expiry(l) \subseteq Expiry(k)
  BY <1>1 DEF Expiry, When
<1>5. ~(d.fqdn # "none" /\ ~l.covers) \/ (c.fqdn # "none" /\ ~k.covers)
  BY <1>1 DEF Named
<1>6. /\ l.issuer = "other" /\ l.pem = "none" => k.issuer = "other" /\ k.pem = "none"
      /\ l.chainComplete = "off" => k.chainComplete = "off"
  BY <1>1
<1>7. \A f \in Chain(l, r) : f \in Chain(k, r) \/ f.sev = "INFO"
  <2>1. CASE l.chain = k.chain
    BY <2>1 DEF Chain
  <2>2. CASE l.chain \in RequiredRoots \ ChainFaults
    BY <2>2, WhenIs DEF Chain, ChainFaults, When
  <2> QED
    BY <1>1, <2>1, <2>2
<1>8. /\ When(d.fqdn # "none" /\ ~l.covers, "C.CERT.FQDN_MISMATCH", "HIGH")
         \subseteq When(c.fqdn # "none" /\ ~k.covers, "C.CERT.FQDN_MISMATCH", "HIGH")
      /\ When(l.issuer = "other" /\ l.pem = "none", "C.CERT.ISSUER_PROGRAM_UNVERIFIED", "LOW")
         \subseteq When(k.issuer = "other" /\ k.pem = "none", "C.CERT.ISSUER_PROGRAM_UNVERIFIED", "LOW")
      /\ When(l.chainComplete = "off", "C.CERT.CHAIN_INCOMPLETE", "MEDIUM")
         \subseteq When(k.chainComplete = "off", "C.CERT.CHAIN_INCOMPLETE", "MEDIUM")
  BY <1>5, <1>6 DEF When
<1> QED
  BY <1>1, <1>2, <1>3, <1>4, <1>7, <1>8 DEF LeafCert, Judging

LEMMA ContextMended ==
  ASSUME NEW x, NEW y, MendedContext(x, y), x.cert # NoCert, x.cert.pem \notin Unreadable,
         NEW t, NEW u, u.srtp \in {t.srtp, "on"},
         NEW c, NEW d, Named(c, d), d.ios \in {c.ios, "fixed", "?"}
  PROVE  Judging(Context(d, u, y)) \subseteq Context(c, t, x)
<1>1. /\ y.mtls \in {x.mtls, "on"} /\ y.minTls \in {x.minTls, "1.2", "1.3"} /\ y.ciphers \in {x.ciphers, "shared"}
      /\ y.introspectable = x.introspectable
      /\ y.roots = x.roots \/ (x.introspectable /\ RequiredRoots \subseteq y.roots)
      /\ y.cert # NoCert /\ MendedCert(x.cert, y.cert)
  BY DEF MendedContext
<1>2. When(y.mtls = "off", "C.TLS.MTLS_DISABLED", "HIGH") \subseteq When(x.mtls = "off", "C.TLS.MTLS_DISABLED", "HIGH")
  BY <1>1 DEF When
<1>3. Judging(MediaTrust(u, y)) \subseteq MediaTrust(t, x)
  <2>1. u.srtp = "off" => t.srtp = "off"
    OBVIOUS
  <2>2. When(u.srtp = "off", "C.SRTP.DISABLED", "HIGH") \subseteq When(t.srtp = "off", "C.SRTP.DISABLED", "HIGH")
    BY <2>1 DEF When
  <2>3. \A f \in When(u.srtp = "on" /\ (~y.introspectable \/ Missing(y) # {}),
                      "C.SRTP.MEDIA_TRUST_UNVERIFIED", "INFO") : f.sev = "INFO"
    BY WhenIs
  <2> QED
    BY <2>2, <2>3 DEF MediaTrust, Judging
<1>4. TlsPolicy(y) \subseteq TlsPolicy(x)
  BY <1>1 DEF TlsPolicy, When
<1>5. Demanded(y) = Demanded(x) /\ Demanded(x) \in {{}, RequiredRoots}
  BY <1>1 DEF Demanded, Unavailable
<1>6. TrustStore(y) \subseteq TrustStore(x)
  <2>1. CASE y.roots = x.roots
    <3>1. Unavailable(y) = Unavailable(x) /\ NotFound(y) = NotFound(x) /\ Missing(y) = Missing(x)
      BY <1>1, <1>5, <2>1 DEF Unavailable, NotFound, Missing
    <3> QED
      BY <1>1, <3>1 DEF TrustStore
  <2>2. CASE x.introspectable /\ RequiredRoots \subseteq y.roots
    <3>1. ~Unavailable(y) /\ y.introspectable /\ Missing(y) = {}
      BY <1>1, <1>5, <2>2 DEF Unavailable, NotFound, Missing
    <3> QED
      BY <3>1 DEF TrustStore, When
  <2> QED
    BY <1>1, <2>1, <2>2
<1>7. Platform(d) \subseteq Platform(c)
  BY DEF Platform, When
<1>8. Judging(LeafFindings(y, d, Demanded(y))) \subseteq LeafFindings(x, c, Demanded(x))
  <2>1. /\ LeafFindings(x, c, Demanded(x)) = LeafCert(x.cert, c, Demanded(x))
        /\ LeafFindings(y, d, Demanded(y)) = LeafCert(y.cert, d, Demanded(x))
    BY <1>1, <1>5 DEF LeafFindings
  <2>2. PICK r \in {{}, RequiredRoots} : r = Demanded(x)
    BY <1>5
  <2>3. PICK k, l : k = x.cert /\ l = y.cert
    OBVIOUS
  <2>4. MendedCert(k, l)
    BY <1>1, <2>3
  <2>5. Judging(LeafCert(l, d, r)) \subseteq LeafCert(k, c, r)
    BY <2>4, LeafMended
  <2> QED
    BY <2>1, <2>2, <2>3, <2>5
<1> QED
  BY <1>2, <1>3, <1>4, <1>6, <1>7, <1>8 DEF Context, Judging

LEMMA CaMended ==
  ASSUME NEW c \in NormalizedConfig, NEW d, MendedLegs(c, d), Visible(c), Named(c, d),
         d.ios \in {c.ios, "fixed", "?"},
         LeafOf(c) # NoCert, LeafOf(c).pem \notin Unreadable
  PROVE  Judging(CaCompliance(d)) \subseteq CaCompliance(c)
<1> DEFINE t == Teams(c)
           u == Teams(d)
<1>1. HasTeams(c) /\ HasTeams(d) /\ t.tls # NoContext /\ MendedLeg(t, u)
  BY RolesMended DEF Visible
<1>2. u.tls # NoContext /\ MendedContext(t.tls, u.tls) /\ u.srtp \in {t.srtp, "on"}
  BY <1>1 DEF MendedLeg
<1>3. Judging(Context(d, u, u.tls)) \subseteq Context(c, t, t.tls)
  <2>1. t.tls.cert # NoCert /\ t.tls.cert.pem \notin Unreadable
    BY DEF LeafOf
  <2> HIDE DEF t, u
  <2> QED
    BY <1>2, <2>1, ContextMended
<1>4. CaCompliance(c) = Context(c, t, t.tls) /\ CaCompliance(d) = Context(d, u, u.tls)
  BY <1>1, <1>2 DEF CaCompliance
<1> QED
  BY <1>3, <1>4
\* G finds no more than F does, or it finds one MEDIUM thing more and misses a
\* grave one.
Exchanged(F, G, g, h) == /\ g \in F \ G /\ Grave(g) /\ h.sev = "MEDIUM"
                         /\ Judging(G) \subseteq F \cup {h}
Eased(F, G) == Judging(G) \subseteq F \/ \E g, h : Exchanged(F, G, g, h)

\* An address that is mended may be the second family of those advertised.
LEMMA NatMended ==
  ASSUME NEW c \in NormalizedConfig, NEW d \in NormalizedConfig, c.realms # << >>, MendedRealms(c, d)
  PROVE  Eased(NatTraversal(c), NatTraversal(d))
<1> DEFINE public(e) == {i \in DOMAIN e.realms : e.realms[i].role # "internal"}
           hidden(e) == {i \in public(e) : e.realms[i].advertised = "?" /\ ~LocalPublic(e.realms[i])}
           private(e) == {i \in public(e) : e.realms[i].advertised = "private4"}
           asymmetric(e) == {i \in DOMAIN e.realms : e.realms[i].symmetric = "off"}
           mixed(e) == \A f \in {4, 6} : \E i \in public(e) : FamilyOf(e.realms[i]) = f
           h == [id |-> "D.IPV6.MIXED_MODE", sev |-> "MEDIUM", at |-> 0]
<1>1. /\ DOMAIN d.realms \subseteq DOMAIN c.realms /\ DOMAIN d.realms # {}
      /\ \A i \in DOMAIN d.realms : MendedRealm(c.realms[i], d.realms[i])
  <2>1. d.realms \in Seq(MediaRealm) /\ d.realms # << >>
    BY DEF NormalizedConfig, MendedRealms
  <2> QED
    BY <2>1 DEF MendedRealms
<1>2. public(d) \subseteq public(c)
  BY <1>1 DEF MendedRealm
<1>3. \A i \in DOMAIN d.realms : LocalPublic(d.realms[i]) = LocalPublic(c.realms[i])
  BY <1>1 DEF MendedRealm, LocalPublic
<1>4. hidden(d) \subseteq hidden(c) /\ private(d) \subseteq private(c)
  BY <1>1, <1>2, <1>3 DEF MendedRealm
<1>5. asymmetric(d) \subseteq asymmetric(c)
  BY <1>1 DEF MendedRealm
<1>6. ASSUME mixed(d), ~mixed(c)
      PROVE  \E i : \/ i \in hidden(c) \ hidden(d)
                    \/ i \in private(c) \ private(d)
  <2>1. PICK i \in public(d) : d.realms[i].advertised # c.realms[i].advertised
    <3> SUFFICES ASSUME \A i \in public(d) : d.realms[i].advertised = c.realms[i].advertised
                 PROVE  mixed(c)
      BY <1>6
    <3>1. \A i \in public(d) : FamilyOf(c.realms[i]) = FamilyOf(d.realms[i])
      BY <1>1 DEF FamilyOf, MendedRealm
    <3> QED
      BY <1>2, <1>6, <3>1
  <2>2. /\ d.realms[i].advertised = "public4"
        /\ c.realms[i].advertised = "private4" \/ (c.realms[i].advertised = "?" /\ ~LocalPublic(c.realms[i]))
    BY <1>1, <2>1 DEF MendedRealm
  <2> QED
    BY <1>2, <2>2
<1>7. \A e : NatTraversal(e) =
        When(DOMAIN e.realms = {}, "D.MEDIA.NO_REALM", "MEDIUM")
        \cup Each(hidden(e), "D.NAT.NO_PUBLIC_IP", "HIGH")
        \cup Each(private(e), "D.NAT.PRIVATE_ADVERTISED", "CRITICAL")
        \cup Each(asymmetric(e), "D.NAT.NO_SYMMETRIC_RTP", "MEDIUM")
        \cup When(mixed(e), "D.IPV6.MIXED_MODE", "MEDIUM")
  BY DEF NatTraversal
<1> HIDE DEF hidden, private, asymmetric, mixed
<1>8. /\ When(DOMAIN d.realms = {}, "D.MEDIA.NO_REALM", "MEDIUM") = {}
      /\ Each(hidden(d), "D.NAT.NO_PUBLIC_IP", "HIGH") \subseteq Each(hidden(c), "D.NAT.NO_PUBLIC_IP", "HIGH")
      /\ Each(private(d), "D.NAT.PRIVATE_ADVERTISED", "CRITICAL")
           \subseteq Each(private(c), "D.NAT.PRIVATE_ADVERTISED", "CRITICAL")
      /\ Each(asymmetric(d), "D.NAT.NO_SYMMETRIC_RTP", "MEDIUM")
           \subseteq Each(asymmetric(c), "D.NAT.NO_SYMMETRIC_RTP", "MEDIUM")
  BY <1>1, <1>4, <1>5, InEach DEF When
<1>9. When(mixed(d), "D.IPV6.MIXED_MODE", "MEDIUM") \subseteq {h}
  BY InWhen
<1>10. CASE mixed(d) => mixed(c)
  <2>1. When(mixed(d), "D.IPV6.MIXED_MODE", "MEDIUM") \subseteq When(mixed(c), "D.IPV6.MIXED_MODE", "MEDIUM")
    BY <1>10 DEF When
  <2>2. NatTraversal(d) \subseteq NatTraversal(c)
    BY <1>7, <1>8, <2>1
  <2> QED
    BY <2>2 DEF Eased, Judging
<1>11. CASE mixed(d) /\ ~mixed(c)
  <2>1. PICK i : i \in hidden(c) \ hidden(d) \/ i \in private(c) \ private(d)
    BY <1>6, <1>11
  <2>2. NatTraversal(d) \subseteq NatTraversal(c) \cup {h}
    BY <1>7, <1>8, <1>9
  <2>3. CASE i \in hidden(c) \ hidden(d)
    <3> DEFINE g == [id |-> "D.NAT.NO_PUBLIC_IP", sev |-> "HIGH", at |-> i]
    <3>1. g \in Each(hidden(c), "D.NAT.NO_PUBLIC_IP", "HIGH")
      BY <2>3, InEach
    <3>2. g \notin NatTraversal(d)
      <4>1. g \notin Each(hidden(d), "D.NAT.NO_PUBLIC_IP", "HIGH")
        BY <2>3, InEach
      <4>2. g.id = "D.NAT.NO_PUBLIC_IP"
        OBVIOUS
      <4> HIDE DEF g
      <4> QED
        BY <1>7, <4>1, <4>2, EachIs, WhenIs
    <3>3. Exchanged(NatTraversal(c), NatTraversal(d), g, h)
      BY <1>7, <2>2, <3>1, <3>2 DEF Exchanged, Grave, Judging
    <3> QED
      BY <3>3 DEF Eased
  <2>4. CASE i \in private(c) \ private(d)
    <3> DEFINE g == [id |-> "D.NAT.PRIVATE_ADVERTISED", sev |-> "CRITICAL", at |-> i]
    <3>1. g \in Each(private(c), "D.NAT.PRIVATE_ADVERTISED", "CRITICAL")
      BY <2>4, InEach
    <3>2. g \notin NatTraversal(d)
      <4>1. g \notin Each(private(d), "D.NAT.PRIVATE_ADVERTISED", "CRITICAL")
        BY <2>4, InEach
      <4>2. g.id = "D.NAT.PRIVATE_ADVERTISED"
        OBVIOUS
      <4> HIDE DEF g
      <4> QED
        BY <1>7, <4>1, <4>2, EachIs, WhenIs
    <3>3. Exchanged(NatTraversal(c), NatTraversal(d), g, h)
      BY <1>7, <2>2, <3>1, <3>2 DEF Exchanged, Grave, Judging
    <3> QED
      BY <3>3 DEF Eased
  <2> QED
    BY <2>1, <2>3, <2>4
<1> QED
  BY <1>10, <1>11
\* One DTMF method or none stays one.
LEMMA MethodsMended ==
  ASSUME NEW c \in NormalizedConfig, NEW d \in NormalizedConfig, MendedLegs(c, d),
         Methods(c) # {} => "rfc2833" \in Methods(c)
  PROVE  /\ Methods(d) # {} => "rfc2833" \in Methods(d)
         /\ Cardinality(Methods(d)) > 1 => Cardinality(Methods(c)) > 1
<1>1. /\ DOMAIN d.ifaces = DOMAIN c.ifaces
      /\ \A i \in DOMAIN c.ifaces : d.ifaces[i].dtmf \in {c.ifaces[i].dtmf, "rfc2833"}
  BY DEF MendedLegs, MendedLeg
<1>2. Methods(d) \subseteq Methods(c) \cup {"rfc2833"}
  BY <1>1 DEF Methods
<1>3. Methods(d) # {} => "rfc2833" \in Methods(d)
  <2> SUFFICES ASSUME Methods(d) # {}, "rfc2833" \notin Methods(d) PROVE FALSE
    OBVIOUS
  <2>1. \A i \in DOMAIN c.ifaces : d.ifaces[i].dtmf = c.ifaces[i].dtmf
    BY <1>1 DEF Methods
  <2>2. Methods(d) = Methods(c)
    BY <1>1, <2>1 DEF Methods
  <2> QED
    BY <2>2
<1>4. IsFiniteSet(Methods(c)) /\ Cardinality(Methods(c)) \in Nat
  <2>1. c.ifaces \in Seq(SipInterface)
    BY DEF NormalizedConfig
  <2>2. \A i \in DOMAIN c.ifaces : c.ifaces[i].dtmf \in {"?"} \cup {"rfc2833", "inband", "info"}
    <3>1. \A i \in DOMAIN c.ifaces : c.ifaces[i] \in SipInterface
      BY <2>1
    <3> QED
      BY <3>1 DEF SipInterface
  <2>3. Methods(c) \in SUBSET {"rfc2833", "inband", "info"}
    BY <2>2 DEF Methods
  <2>4. IsFiniteSet({"rfc2833", "inband", "info"})
    <3>1. IsFiniteSet({"rfc2833"} \cup {"inband"})
      BY FS_Singleton, FS_Union
    <3>2. IsFiniteSet(({"rfc2833"} \cup {"inband"}) \cup {"info"})
      BY <3>1, FS_Singleton, FS_Union
    <3>3. ({"rfc2833"} \cup {"inband"}) \cup {"info"} = {"rfc2833", "inband", "info"}
      OBVIOUS
    <3> QED
      BY <3>2, <3>3
  <2> QED
    BY <2>3, <2>4, FS_Subset, FS_CardinalityType
<1>5. CASE Methods(c) = {}
  <2>1. Methods(d) \in SUBSET {"rfc2833"} /\ IsFiniteSet({"rfc2833"}) /\ Cardinality({"rfc2833"}) = 1
    BY <1>2, <1>5, FS_Singleton
  <2>2. Cardinality(Methods(d)) <= 1 /\ Cardinality(Methods(d)) \in Nat
    BY <2>1, FS_Subset, FS_CardinalityType
  <2> QED
    BY <1>3, <2>2
<1>6. CASE "rfc2833" \in Methods(c)
  <2>1. Methods(d) \in SUBSET Methods(c)
    BY <1>2, <1>6
  <2>2. Cardinality(Methods(d)) <= Cardinality(Methods(c)) /\ Cardinality(Methods(d)) \in Nat
    BY <1>4, <2>1, FS_Subset, FS_CardinalityType
  <2> QED
    BY <1>3, <1>4, <2>2
<1> QED
  BY <1>5, <1>6

\* What a leg offers Teams, once mended, serves it.
LEMMA TeamsCodecMended ==
  ASSUME NEW t, NEW u, MendedLeg(t, u)
  PROVE  Judging(TeamsCodec(u)) \subseteq TeamsCodec(t)
<1>1. SameOffer(t, u) \/ (u.carried /\ Serves(u))
  BY DEF MendedLeg
<1>2. When(u.dtmf = "inband", "E.DTMF.INBAND_TEAMS", "MEDIUM")
        \subseteq When(t.dtmf = "inband", "E.DTMF.INBAND_TEAMS", "MEDIUM")
  BY DEF MendedLeg, When
<1>3. CASE SameOffer(t, u)
  BY <1>2, <1>3 DEF TeamsCodec, CarriesCodecs, SameOffer, Judging
<1>4. CASE u.carried /\ Serves(u)
  <2>1. u.codecs # {} /\ u.codecs \cap (TeamsCodecs \cup {"AMR-WB"}) # {}
    BY <1>4 DEF Serves
  <2>2. \A f \in When(CarriesCodecs(u) /\ u.codecs # {} /\ "AMR-WB" \notin u.codecs,
                      "E.CODEC.AMRWB_NOT_OFFERED", "INFO") : f.sev = "INFO"
    BY WhenIs
  <2>3. \A f \in TeamsCodec(u) : \/ f \in When(u.dtmf = "inband", "E.DTMF.INBAND_TEAMS", "MEDIUM")
                                 \/ f.sev = "INFO"
    BY <2>1, <2>2, InWhen DEF TeamsCodec
  <2> QED
    BY <1>2, <2>3 DEF TeamsCodec, Judging
<1> QED
  BY <1>1, <1>3, <1>4

\* A leg that had offered Teams nothing, once mended, may have no codec in
\* common with the carrier.
LEMMA CodecMended ==
  ASSUME NEW c \in NormalizedConfig, NEW d \in NormalizedConfig, MendedLegs(c, d), HasTeams(c),
         Methods(c) # {} => "rfc2833" \in Methods(c)
  PROVE  Eased(Codec(c), Codec(d))
<1> DEFINE t == Teams(c)
           u == Teams(d)
           apart(e)  == Cardinality(Legs(e)) >= 2 /\ Common(e) = {}
           narrowed(e) == /\ Cardinality(Legs(e)) >= 2 /\ Common(e) # {} /\ Common(e) \cap Wideband = {}
                          /\ Offered(e) \cap Wideband # {}
           unwanted(e) == Methods(e) # {} /\ "rfc2833" \notin Methods(e)
           h == [id |-> "E.CODEC.NO_CROSS_OVERLAP", sev |-> "MEDIUM", at |-> 0]
<1>1. HasTeams(d) /\ MendedLeg(t, u)
  BY RolesMended
<1>2. ~unwanted(d) /\ (Cardinality(Methods(d)) > 1 => Cardinality(Methods(c)) > 1)
  BY MethodsMended
<1>3. ASSUME apart(d), ~apart(c) PROVE t.carried /\ ~Serves(t) /\ Serves(u)
  <2>1. ASSUME \A i \in DOMAIN c.ifaces : SameOffer(c.ifaces[i], d.ifaces[i]) PROVE FALSE
    <3>1. DOMAIN d.ifaces = DOMAIN c.ifaces
      BY DEF MendedLegs
    <3>2. Legs(d) = Legs(c) /\ \A i \in Legs(c) : d.ifaces[i].codecs = c.ifaces[i].codecs
      BY <2>1, <3>1 DEF Legs, SameOffer
    <3>3. Common(d) = Common(c)
      BY <3>2 DEF Common
    <3> QED
      BY <1>3, <3>2, <3>3
  <2> QED
    BY <1>3, <2>1 DEF MendedLegs
<1>4. \A e : Codec(e) =
        (IF HasTeams(e) THEN TeamsCodec(Teams(e)) ELSE {})
        \cup When(apart(e), "E.CODEC.NO_CROSS_OVERLAP", "MEDIUM")
        \cup When(narrowed(e), "E.CODEC.WIDEBAND_DOWNGRADE", "INFO")
        \cup When(unwanted(e), "E.DTMF.METHOD", "LOW")
        \cup When(Cardinality(Methods(e)) > 1, "E.DTMF.INCONSISTENT", "MEDIUM")
  BY DEF Codec
<1> HIDE DEF apart, narrowed, unwanted
<1>5. /\ When(unwanted(d), "E.DTMF.METHOD", "LOW") = {}
      /\ When(Cardinality(Methods(d)) > 1, "E.DTMF.INCONSISTENT", "MEDIUM")
           \subseteq When(Cardinality(Methods(c)) > 1, "E.DTMF.INCONSISTENT", "MEDIUM")
  BY <1>2 DEF When
<1>6. \A f \in When(narrowed(d), "E.CODEC.WIDEBAND_DOWNGRADE", "INFO") : f.sev = "INFO"
  BY WhenIs
<1>7. Judging(TeamsCodec(u)) \subseteq TeamsCodec(t)
  BY <1>1, TeamsCodecMended
<1>8. Judging(Codec(d)) \subseteq Codec(c) \cup When(apart(d), "E.CODEC.NO_CROSS_OVERLAP", "MEDIUM")
  BY <1>1, <1>4, <1>5, <1>6, <1>7 DEF Judging
<1>9. CASE apart(d) => apart(c)
  <2>1. When(apart(d), "E.CODEC.NO_CROSS_OVERLAP", "MEDIUM") \subseteq Codec(c)
    <3>1. When(apart(d), "E.CODEC.NO_CROSS_OVERLAP", "MEDIUM") \subseteq When(apart(c), "E.CODEC.NO_CROSS_OVERLAP", "MEDIUM")
      BY <1>9 DEF When
    <3> QED
      BY <1>4, <3>1
  <2> QED
    BY <1>8, <2>1 DEF Eased
<1>10. CASE apart(d) /\ ~apart(c)
  <2>1. t.carried /\ ~Serves(t) /\ Serves(u)
    BY <1>3, <1>10
  <2>2. PICK id \in {"E.CODEC.NONE_OFFERED", "E.CODEC.NO_TEAMS_OVERLAP"} :
               [id |-> id, sev |-> "HIGH", at |-> 0] \in TeamsCodec(t)
    <3>1. CASE t.codecs = {}
      <4>1. [id |-> "E.CODEC.NONE_OFFERED", sev |-> "HIGH", at |-> 0]
              \in When(CarriesCodecs(t) /\ t.codecs = {}, "E.CODEC.NONE_OFFERED", "HIGH")
        BY <2>1, <3>1 DEF When, Each, CarriesCodecs
      <4> QED
        BY <4>1 DEF TeamsCodec
    <3>2. CASE t.codecs # {}
      <4>1. [id |-> "E.CODEC.NO_TEAMS_OVERLAP", sev |-> "HIGH", at |-> 0]
              \in When(CarriesCodecs(t) /\ t.codecs # {} /\ t.codecs \cap (TeamsCodecs \cup {"AMR-WB"}) = {},
                       "E.CODEC.NO_TEAMS_OVERLAP", "HIGH")
        BY <2>1, <3>2 DEF When, Each, CarriesCodecs, Serves
      <4> QED
        BY <4>1 DEF TeamsCodec
    <3> QED
      BY <3>1, <3>2
  <2> DEFINE g == [id |-> id, sev |-> "HIGH", at |-> 0]
  <2>3. g.id \in {"E.CODEC.NONE_OFFERED", "E.CODEC.NO_TEAMS_OVERLAP"} /\ g \in TeamsCodec(t)
        /\ g.sev = "HIGH"
    BY <2>2
  <2> HIDE DEF g
  <2>4. g \notin Codec(d)
    <3>1. g \notin TeamsCodec(u)
      <4>1. u.codecs # {} /\ u.codecs \cap (TeamsCodecs \cup {"AMR-WB"}) # {}
        BY <2>1 DEF Serves
      <4>2. \A f \in TeamsCodec(u) : f.id \in {"E.CODEC.AMRWB_NOT_OFFERED", "E.DTMF.INBAND_TEAMS"}
        <5>1. /\ When(CarriesCodecs(u) /\ u.codecs = {}, "E.CODEC.NONE_OFFERED", "HIGH") = {}
              /\ When(CarriesCodecs(u) /\ u.codecs # {} /\ u.codecs \cap (TeamsCodecs \cup {"AMR-WB"}) = {},
                      "E.CODEC.NO_TEAMS_OVERLAP", "HIGH") = {}
          BY <4>1 DEF When
        <5> QED
          BY <5>1, WhenIs DEF TeamsCodec
      <4> QED
        BY <2>3, <4>2
    <3> QED
      BY <1>1, <1>4, <2>3, <3>1, WhenIs
  <2>5. g \in Codec(c)
    BY <1>4, <2>3
  <2>6. When(apart(d), "E.CODEC.NO_CROSS_OVERLAP", "MEDIUM") \subseteq {h}
    BY InWhen
  <2>7. Exchanged(Codec(c), Codec(d), g, h)
    BY <1>8, <2>3, <2>4, <2>5, <2>6 DEF Exchanged, Grave
  <2> QED
    BY <2>7 DEF Eased
<1> QED
  BY <1>9, <1>10

LEMMA RoutingMended ==
  ASSUME NEW c \in NormalizedConfig, NEW d, MendedLegs(c, d), d.classified \in {c.classified, "on"},
         d.routes = c.routes \/ Routed(d.routes)
  PROVE  Routing(d) \subseteq Routing(c)
<1> DEFINE from(e) == e.routes # {} /\ \A r \in e.routes : r[1] = "teams" => r[2] = "teams"
           to(e)   == e.routes # {} /\ \A r \in e.routes : r[2] = "teams" => r[1] = "teams"
<1>1. HasTeams(d) <=> HasTeams(c)
  BY RolesMended
<1>2. (from(d) => from(c)) /\ (to(d) => to(c)) /\ (d.classified = "off" => c.classified = "off")
  BY DEF Routed
<1>3. \A e : Routing(e) = IF ~HasTeams(e) THEN {}
                          ELSE When(e.classified = "off", "G.CLASS.UNCLASSIFIED", "HIGH")
                               \cup When(from(e), "G.ROUTE.NO_FROM_TEAMS", "HIGH")
                               \cup When(to(e), "G.ROUTE.NO_TO_TEAMS", "HIGH")
  BY DEF Routing
<1> HIDE DEF from, to
<1> QED
  BY <1>1, <1>2, <1>3 DEF When

LEMMA AccessMended ==
  ASSUME NEW c, NEW d, d.rtpCheck \in {c.rtpCheck, "on"}, d.acls = c.acls \/ SoundRules(d.acls)
  PROVE  AccessControl(d) \subseteq AccessControl(c)
<1> DEFINE permits(acls) == {i \in DOMAIN acls : acls[i].action = "permit"}
           shadows(acls) == {i \in DOMAIN acls : Shadowed(acls, i)}
           broad(acls)   == {i \in permits(acls) : acls[i].net \in {"any", "wide"}}
           open(acls)    == permits(acls) # {} /\ \A i \in DOMAIN acls \ permits(acls) : acls[i].net \notin {"none", "any"}
           planes(acls)  == {acls[i].plane : i \in permits(acls)}
           vers(acls)    == {acls[i].ver : i \in DOMAIN acls}
           listed(acls)  ==
             When(open(acls), "S.ACL.NO_DEFAULT_DENY", "HIGH")
             \cup Each(broad(acls), "S.ACL.BROAD_CIDR", "MEDIUM")
             \cup When(planes(acls) = {"signaling"}, "S.ACL.MEDIA_PLANE_MISSING", "HIGH")
             \cup When(vers(acls) = {4}, "S.ACL.IPV6_NEGLECT", "HIGH")
             \cup Each(shadows(acls) \cap (DOMAIN acls \ permits(acls)), "S.ACL.SHADOWED_DENY", "HIGH")
             \cup Each(shadows(acls) \cap permits(acls), "S.ACL.SHADOWED_PERMIT", "MEDIUM")
<1>1. \A e : AccessControl(e) = listed(e.acls) \cup When(e.rtpCheck = "off", "S.RTP.SOURCE_VALIDATION_OFF", "MEDIUM")
  BY DEF AccessControl
<1>2. ASSUME NEW acls, SoundRules(acls) PROVE listed(acls) = {}
  <2>1. ~open(acls) /\ broad(acls) = {} /\ shadows(acls) = {}
    BY <1>2 DEF SoundRules
  <2>2. planes(acls) # {"signaling"}
    <3>1. CASE permits(acls) = {}
      BY <3>1
    <3>2. CASE permits(acls) # {}
      <4>1. \E i \in permits(acls) : acls[i].plane # "signaling"
        BY <1>2, <3>2 DEF SoundRules
      <4> QED
        BY <4>1
    <3> QED
      BY <3>1, <3>2
  <2>3. vers(acls) # {4}
    <3>1. CASE acls = << >>
      BY <3>1
    <3>2. CASE acls # << >>
      <4>1. \E i \in DOMAIN acls : acls[i].ver = 6
        BY <1>2, <3>2 DEF SoundRules
      <4> QED
        BY <4>1
    <3> QED
      BY <3>1, <3>2
  <2>4. \A id, sev : Each({}, id, sev) = {} /\ When(FALSE, id, sev) = {}
    BY DEF Each, When
  <2> HIDE DEF open, broad, shadows, planes, vers, permits
  <2>5. /\ When(open(acls), "S.ACL.NO_DEFAULT_DENY", "HIGH") = {}
        /\ When(planes(acls) = {"signaling"}, "S.ACL.MEDIA_PLANE_MISSING", "HIGH") = {}
        /\ When(vers(acls) = {4}, "S.ACL.IPV6_NEGLECT", "HIGH") = {}
    BY <2>1, <2>2, <2>3 DEF When
  <2>6. /\ shadows(acls) \cap (DOMAIN acls \ permits(acls)) = {}
        /\ shadows(acls) \cap permits(acls) = {}
    BY <2>1
  <2> QED
    BY <2>1, <2>4, <2>5, <2>6
<1> HIDE DEF listed
<1>3. listed(d.acls) \subseteq listed(c.acls)
  BY <1>2
<1>4. d.rtpCheck = "off" => c.rtpCheck = "off"
  OBVIOUS
<1>5. When(d.rtpCheck = "off", "S.RTP.SOURCE_VALIDATION_OFF", "MEDIUM")
        \subseteq When(c.rtpCheck = "off", "S.RTP.SOURCE_VALIDATION_OFF", "MEDIUM")
  BY <1>4 DEF When
<1> QED
  BY <1>1, <1>3, <1>5
\* Two grave findings may give way to two MEDIUM ones.
LEMMA EasedIsFree ==
  ASSUME NEW F, IsFiniteSet(F), NEW G, NEW g1, NEW h1, NEW g2, NEW h2,
         g1 \in F \ G, Grave(g1), h1.sev = "MEDIUM", g2 \in F \ G, Grave(g2), h2.sev = "MEDIUM",
         g1 # g2, Judging(G) \subseteq F \cup {h1, h2}
  PROVE  Rank(Verdict(G)) <= Rank(Verdict(F))
<1> DEFINE E1 == (F \ {g1}) \cup {h1}
           E2 == (E1 \ {g2}) \cup {h2}
<1>1. IsFiniteSet(E1) /\ Rank(Verdict(E1)) <= Rank(Verdict(F))
  BY ExchangeIsFree
<1>2. g2 \in E1
  OBVIOUS
<1>3. IsFiniteSet(E2) /\ Rank(Verdict(E2)) <= Rank(Verdict(E1))
  <2> HIDE DEF E1
  <2> QED
    BY <1>1, <1>2, ExchangeIsFree
<1>4. Judging(G) \subseteq E2
  BY DEF Judging
<1>5. Rank(Verdict(G)) <= Rank(Verdict(E2))
  <2> HIDE DEF E2
  <2> QED
    BY <1>3, <1>4, InfoIsFree
<1> HIDE DEF E1, E2
<1>6. \A fs : Rank(Verdict(fs)) \in 0..2
  BY DEF Rank, Verdict
<1> QED
  BY <1>1, <1>3, <1>5, <1>6

\* Mending settings never makes the verdict worse, for every configuration,
\* any number of settings and whatever else is wrong with it.
THEOREM MendingNeverWorsens ==
  ASSUME NEW c \in NormalizedConfig, NEW d \in NormalizedConfig, Repaired(c, d),
         Ids(AllFindings(c)) \cap (Blinding \cup {"E.DTMF.METHOD"}) = {}, ~Unread(c)
  PROVE  Rank(Verdict(AllFindings(d))) <= Rank(Verdict(AllFindings(c)))
<1> DEFINE F == AllFindings(c)
           G == AllFindings(d)
<1>1. IsFiniteSet(F)
  BY AllCounted DEF Counted
<1>2. \A f \in F : f.id \notin Blinding \cup {"E.DTMF.METHOD"}
  BY DEF Ids
<1>3. HasTeams(c) /\ c.fqdn # "none" /\ c.realms # << >> /\ (Methods(c) # {} => "rfc2833" \in Methods(c))
  <2>1. ASSUME ~HasTeams(c) PROVE FALSE
    <3>1. [id |-> "B.IFACE.NO_TEAMS", sev |-> "MEDIUM", at |-> 0] \in Interop(c)
      BY <2>1 DEF Interop, When, Each
    <3> QED
      BY <1>2, <3>1 DEF AllFindings, Blinding
  <2>2. ASSUME c.fqdn = "none" PROVE FALSE
    <3>1. [id |-> "A.SEM.MISSING_FQDN", sev |-> "MEDIUM", at |-> 0]
            \in When(c.fqdn = "none", "A.SEM.MISSING_FQDN", "MEDIUM")
      BY <2>2 DEF When, Each
    <3>2. [id |-> "A.SEM.MISSING_FQDN", sev |-> "MEDIUM", at |-> 0] \in SyntaxSemantic(c)
      BY <3>1 DEF SyntaxSemantic
    <3> QED
      BY <1>2, <3>2 DEF AllFindings, Blinding
  <2>3. ASSUME c.realms = << >> PROVE FALSE
    <3>1. [id |-> "D.MEDIA.NO_REALM", sev |-> "MEDIUM", at |-> 0]
            \in When(DOMAIN c.realms = {}, "D.MEDIA.NO_REALM", "MEDIUM")
      BY <2>3 DEF When, Each
    <3>2. [id |-> "D.MEDIA.NO_REALM", sev |-> "MEDIUM", at |-> 0] \in NatTraversal(c)
      BY <3>1 DEF NatTraversal
    <3> QED
      BY <1>2, <3>2 DEF AllFindings, Blinding
  <2>4. ASSUME Methods(c) # {}, "rfc2833" \notin Methods(c) PROVE FALSE
    <3>1. [id |-> "E.DTMF.METHOD", sev |-> "LOW", at |-> 0]
            \in When(Methods(c) # {} /\ "rfc2833" \notin Methods(c), "E.DTMF.METHOD", "LOW")
      BY <2>4 DEF When, Each
    <3>2. [id |-> "E.DTMF.METHOD", sev |-> "LOW", at |-> 0] \in Codec(c)
      BY <3>1 DEF Codec
    <3> QED
      BY <1>2, <3>2 DEF AllFindings
  <2> QED
    BY <2>1, <2>2, <2>3, <2>4
<1>4. CASE Teams(c).tls = NoContext
  <2>1. [id |-> "C.TLS.NO_CONTEXT", sev |-> "CRITICAL", at |-> 0] \in CaCompliance(c)
    BY <1>3, <1>4 DEF CaCompliance, When, Each
  <2>2. Has(F, "CRITICAL")
    BY <2>1 DEF Has, AllFindings
  <2> QED
    BY <2>2, CriticalIsWorst
<1>5. CASE Teams(c).tls # NoContext /\ Teams(c).tls.cert = NoCert
  <2> DEFINE x == Teams(c).tls
  <2>1. CaCompliance(c) = Context(c, Teams(c), x)
    BY <1>3, <1>5 DEF CaCompliance
  <2>2. LeafFindings(x, c, Demanded(x)) \subseteq F
    BY <2>1 DEF Context, AllFindings
  <2>3. CASE x.introspectable
    <3>1. [id |-> "C.CERT.MISSING", sev |-> "CRITICAL", at |-> 0] \in LeafFindings(x, c, Demanded(x))
      BY <1>5, <2>3 DEF LeafFindings, When, Each
    <3>2. Has(F, "CRITICAL")
      BY <2>2, <3>1 DEF Has
    <3> QED
      BY <3>2, CriticalIsWorst
  <2>4. CASE ~x.introspectable
    <3>1. [id |-> "C.CERT.UNAVAILABLE", sev |-> "LOW", at |-> 0] \in LeafFindings(x, c, Demanded(x))
      BY <1>5, <2>4 DEF LeafFindings, When, Each
    <3> QED
      BY <1>2, <2>2, <3>1 DEF Blinding
  <2> QED
    BY <2>3, <2>4
<1>6. CASE Teams(c).tls # NoContext /\ Teams(c).tls.cert # NoCert
  <2>1. Visible(c) /\ LeafOf(c) # NoCert /\ LeafOf(c).pem \notin Unreadable
    BY <1>3, <1>6 DEF Visible, LeafOf, Unread, HasLeaf
  <2>2. MendedLegs(c, d) /\ MendedRealms(c, d) /\ Named(c, d) /\ d.ios \in {c.ios, "fixed", "?"}
    BY <1>3, <2>1 DEF Repaired, Named
  <2>3. d.fqdn \in {c.fqdn, "name"} /\ d.classified \in {c.classified, "on"} /\ d.rtpCheck \in {c.rtpCheck, "on"}
        /\ (d.routes = c.routes \/ Routed(d.routes)) /\ (d.acls = c.acls \/ SoundRules(d.acls))
    BY DEF Repaired
  <2>4. SyntaxSemantic(d) \subseteq F
    BY <2>2, <2>3, SyntaxMended DEF AllFindings
  <2>5. Interop(d) \subseteq F
    BY <1>3, <2>2, <2>3, InteropMended DEF AllFindings
  <2>6. Judging(CaCompliance(d)) \subseteq F
    BY <2>1, <2>2, CaMended DEF AllFindings
  <2>7. Routing(d) \subseteq F /\ AccessControl(d) \subseteq F
    BY <2>2, <2>3, RoutingMended, AccessMended DEF AllFindings
  <2>8. Eased(NatTraversal(c), NatTraversal(d)) /\ Eased(Codec(c), Codec(d))
    BY <1>3, <2>2, NatMended, CodecMended
  <2>9. Judging(G) \subseteq F \cup Judging(NatTraversal(d)) \cup Judging(Codec(d))
    BY <2>4, <2>5, <2>6, <2>7 DEF AllFindings, Judging
  <2>10. NatTraversal(c) \subseteq F /\ Codec(c) \subseteq F
    BY DEF AllFindings
  <2>11. \A g \in NatTraversal(c) \ NatTraversal(d) : g \in F \ G /\ g.id \in NatIds
    BY <2>10, NatNames, WhoFound
  <2>12. \A g \in Codec(c) \ Codec(d) : g \in F \ G /\ g.id \in CodecIds
    BY <2>10, CodecNames, WhoFound
  <2> HIDE DEF F, G
  <2>13. CASE Judging(NatTraversal(d)) \subseteq F /\ Judging(Codec(d)) \subseteq F
    BY <1>1, <2>9, <2>13, InfoIsFree DEF F, G
  <2>14. ASSUME NEW g1, NEW h1, NEW g2, NEW h2,
                Exchanged(NatTraversal(c), NatTraversal(d), g1, h1), Exchanged(Codec(c), Codec(d), g2, h2)
         PROVE  Rank(Verdict(G)) <= Rank(Verdict(F))
    <3>1. g1 \in F \ G /\ Grave(g1) /\ h1.sev = "MEDIUM" /\ g1.id \in NatIds
      BY <2>11, <2>14 DEF Exchanged
    <3>2. g2 \in F \ G /\ Grave(g2) /\ h2.sev = "MEDIUM" /\ g2.id \in CodecIds
      BY <2>12, <2>14 DEF Exchanged
    <3>3. g1 # g2
      BY <3>1, <3>2 DEF NatIds, CodecIds
    <3>4. Judging(G) \subseteq F \cup {h1, h2}
      BY <2>9, <2>10, <2>14 DEF Exchanged
    <3> QED
      BY <1>1, <3>1, <3>2, <3>3, <3>4, EasedIsFree
  <2>15. ASSUME NEW g, NEW h, g \in F \ G, Grave(g), h.sev = "MEDIUM", Judging(G) \subseteq F \cup {h}
         PROVE  Rank(Verdict(G)) <= Rank(Verdict(F))
    <3> DEFINE E == (F \ {g}) \cup {h}
    <3>1. IsFiniteSet(E) /\ Rank(Verdict(E)) <= Rank(Verdict(F))
      BY <1>1, <2>15, ExchangeIsFree
    <3>2. Judging(G) \subseteq E
      BY <2>15 DEF Judging
    <3> HIDE DEF E
    <3>3. Rank(Verdict(G)) <= Rank(Verdict(E))
      BY <3>1, <3>2, InfoIsFree
    <3>4. \A fs : Rank(Verdict(fs)) \in 0..2
      BY DEF Rank, Verdict
    <3> QED
      BY <3>1, <3>3, <3>4
  <2>16. ASSUME NEW g, NEW h, Exchanged(NatTraversal(c), NatTraversal(d), g, h), Judging(Codec(d)) \subseteq F
         PROVE  Rank(Verdict(G)) <= Rank(Verdict(F))
    <3>1. g \in F \ G /\ Grave(g) /\ h.sev = "MEDIUM" /\ Judging(G) \subseteq F \cup {h}
      BY <2>9, <2>10, <2>11, <2>16 DEF Exchanged
    <3> QED
      BY <2>15, <3>1
  <2>17. ASSUME NEW g, NEW h, Exchanged(Codec(c), Codec(d), g, h), Judging(NatTraversal(d)) \subseteq F
         PROVE  Rank(Verdict(G)) <= Rank(Verdict(F))
    <3>1. g \in F \ G /\ Grave(g) /\ h.sev = "MEDIUM" /\ Judging(G) \subseteq F \cup {h}
      BY <2>9, <2>10, <2>12, <2>17 DEF Exchanged
    <3> QED
      BY <2>15, <3>1
  <2>18. Rank(Verdict(G)) <= Rank(Verdict(F))
    BY <2>8, <2>10, <2>13, <2>14, <2>16, <2>17 DEF Eased, F, G
  <2> QED
    BY <2>18 DEF F, G
<1> QED
  BY <1>4, <1>5, <1>6
=============================================================================
