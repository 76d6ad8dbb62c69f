---------------------------- MODULE ParserProofs ----------------------------
(***************************************************************************)
(* Theorems about VendorPipeline, for every export of every format: any    *)
(* number of legs, with any of the settings of its format there or not.    *)
(***************************************************************************)
EXTENDS VendorPipeline, PipelineProofs

(* Every parser returns a normalized configuration: what the pipeline      *)
(* assumes of its parameter Parse.                                         *)

\* A certificate record the parser makes has its type, with or without a PEM.
LEMMA LeafTyped ==
  ASSUME NEW e \in Export, NEW d \in Details
  PROVE  Leaf(e, d) \in Certificate
<1>1. /\ e.leaf \in Details /\ e.chain \in ChainFaults \cup RequiredRoots \cup OtherRoots
      /\ e.pem \in {"none", "unreadable", "noCrypto", "read"}
  BY DEF Export
<1>. QED BY <1>1 DEF Leaf, Details, Certificate, Tri

LEMMA CertificatesTyped ==
  ASSUME NEW e \in Export
  PROVE  {IniCert(e), AnnotatedCert(e), CubeCert(e), RibbonCert(e)} \subseteq Certificate \cup {NoCert}
<1>1. e.listed \in Details
  BY DEF Export
<1>2. [e.listed EXCEPT !.chainComplete = OffUnlessOn(@)] \in Details
  BY <1>1 DEF Details, OffUnlessOn, Tri
<1>3. Blank \in Details
  BY DEF Blank, Details, Tri
<1>4. [Blank EXCEPT !.covers = e.listed.covers, !.chainComplete = "on"] \in Details
  BY <1>1, <1>3 DEF Details, Tri
<1>5. [Blank EXCEPT !.covers = TRUE] \in Details
  BY <1>3 DEF Details
<1>. QED BY <1>2, <1>3, <1>4, <1>5, LeafTyped DEF IniCert, AnnotatedCert, CubeCert, RibbonCert

LEMMA ContextsTyped ==
  ASSUME NEW e \in Export, NEW m \in Tri, NEW k \in Certificate \cup {NoCert}
  PROVE  /\ Carried(e, m, k) \in TlsContext /\ Imported(e, m, k) \in TlsContext
         /\ [Carried(e, m, k) EXCEPT !.minTls = "?", !.ciphers = "?"] \in TlsContext
         /\ [Imported(e, m, k) EXCEPT !.minTls = "?", !.ciphers = "?"] \in TlsContext
<1>1. /\ e.roots \in SUBSET (RequiredRoots \cup OtherRoots)
      /\ e.minTls \in {"?", "1.0", "1.1", "1.2", "1.3"}
      /\ e.ciphers \in {"?", "empty", "foreign", "shared"}
  BY DEF Export
<1>2. Carried(e, m, k) \in TlsContext
  BY <1>1 DEF Carried, TlsContext
<1>3. Imported(e, m, k) \in TlsContext
  BY <1>2 DEF Imported, TlsContext
<1>. QED BY <1>2, <1>3 DEF TlsContext

LEMMA VendorContextsTyped ==
  ASSUME NEW e \in Export
  PROVE  /\ Carried(e, OffUnlessOn(e.mtls), IniCert(e)) \in TlsContext
         /\ Imported(e, "on", AnnotatedCert(e)) \in TlsContext
         /\ Carried(e, "on", CubeCert(e)) \in TlsContext
         /\ Imported(e, "?", AnnotatedCert(e)) \in TlsContext
         /\ RibbonContext(e) \in TlsContext /\ PerimetaContext(e) \in TlsContext
<1>1. OffUnlessOn(e.mtls) \in Tri /\ "on" \in Tri /\ "?" \in Tri
  BY DEF OffUnlessOn, Tri
<1>. QED BY <1>1, CertificatesTyped, ContextsTyped DEF RibbonContext, PerimetaContext

\* A leg as the export has it is an interface without a TLS context.
LEMMA PlainTyped ==
  ASSUME NEW l \in Leg
  PROVE  Plain(l) \in SipInterface /\ EmptyIsNone(Plain(l)) \in SipInterface
         /\ EmptyIsNone(NamedOnly(Plain(l))) \in SipInterface
         /\ Silenced(Plain(l)) \in SipInterface /\ EmptyIsNone(Silenced(Plain(l))) \in SipInterface
<1>1. /\ l.name \in Nat /\ l.label \in Roles /\ l.keepalive \in Tri /\ l.interval \in Nat \cup {-1}
      /\ l.normalized \in BOOLEAN /\ l.coders.given \in BOOLEAN /\ l.coders.list \in SUBSET Codecs
      /\ l.dtmf \in {"?", "rfc2833", "inband", "info"} /\ l.srtp \in Tri
  BY DEF Leg
<1>2. Transport(l) \in {"?", "tls", "tcp", "udp"}
  <2>1. l.transports \in [1..2 -> {"?", "tls", "tcp", "udp"}]
    BY DEF Leg
  <2>. QED BY <2>1 DEF Transport
<1>3. Plain(l) \in SipInterface
  BY <1>1, <1>2 DEF Plain, SipInterface
<1>4. Silenced(Plain(l)) \in SipInterface
  BY <1>3 DEF Silenced, SipInterface
<1>5. \A x \in SipInterface : EmptyIsNone(x) \in SipInterface
  BY DEF EmptyIsNone, SipInterface
<1>6. NamedOnly(Plain(l)) \in SipInterface
  BY <1>3 DEF NamedOnly, SipInterface
<1>. QED BY <1>3, <1>4, <1>5, <1>6

LEMMA LegsTyped ==
  ASSUME NEW e \in Export, NEW l \in Leg
  PROVE  ParseLeg(e, l) \in SipInterface
<1>1. RoleByPeer(l) \in Roles /\ RoleByEither(l) \in Roles /\ l.contact \in {"?", "under", "outside"}
  BY DEF RoleByPeer, RoleByEither, Leg, Roles
<1>2. \A x \in TlsContext : IfTls(l, x) \in TlsContext \cup {NoContext}
  BY DEF IfTls
<1>3. \A x : OffUnlessOn(x) \in Tri
  BY DEF OffUnlessOn, Tri
<1>4. "on" \in Tri /\ "?" \in Tri /\ "off" \in Tri
  BY DEF Tri
<1>5. /\ Plain(l) \in SipInterface /\ EmptyIsNone(Plain(l)) \in SipInterface
      /\ EmptyIsNone(NamedOnly(Plain(l))) \in SipInterface
      /\ Silenced(Plain(l)) \in SipInterface /\ EmptyIsNone(Silenced(Plain(l))) \in SipInterface
  BY PlainTyped
<1>6. IniLeg(e, l) \in SipInterface
  <2>. DEFINE c == IF l.bound THEN Carried(e, OffUnlessOn(e.mtls), IniCert(e)) ELSE NoContext
  <2>1. c \in TlsContext \cup {NoContext}
    BY VendorContextsTyped
  <2>2. \A b \in SipInterface, x \in TlsContext \cup {NoContext} :
          [b EXCEPT !.tls = x, !.keepalive = OffUnlessOn(@), !.contact = l.contact,
             !.srtp = OffUnlessOn(@)] \in SipInterface
    BY <1>1, <1>3 DEF SipInterface
  <2>3. IniLeg(e, l) = [Plain(l) EXCEPT !.tls = c, !.keepalive = OffUnlessOn(@),
                          !.contact = l.contact, !.srtp = OffUnlessOn(@)]
    BY DEF IniLeg
  <2>. QED BY <1>5, <2>1, <2>2, <2>3, ZenonT(60)
<1>7. TableLeg(e, l) \in SipInterface
  <2>. DEFINE b == EmptyIsNone(IF "profile" \in l.refs THEN NamedOnly(Plain(l)) ELSE Silenced(Plain(l)))
              c == IfTls(l, Imported(e, "on", AnnotatedCert(e)))
  <2>1. b \in SipInterface
    BY <1>5
  <2>2. c \in TlsContext \cup {NoContext}
    BY <1>2, VendorContextsTyped
  <2>. DEFINE k == IF "proxySet" \in l.refs THEN OffUnlessOn(b.keepalive) ELSE "?"
              i == IF "proxySet" \in l.refs THEN b.interval ELSE -1
              s == IF "profile" \in l.refs THEN OffUnlessOn(b.srtp) ELSE "?"
  <2>3. k \in Tri /\ s \in Tri
    BY <1>3, <1>4
  <2>4. i \in Nat \cup {-1}
    BY <2>1 DEF SipInterface
  <2>5. TableLeg(e, l) = [b EXCEPT !.role = RoleByPeer(l), !.tls = c, !.keepalive = k,
                            !.interval = i, !.srtp = s, !.dtmf = "?"]
    BY DEF TableLeg
  <2>6. [b EXCEPT !.role = RoleByPeer(l), !.tls = c, !.keepalive = k, !.interval = i, !.srtp = s,
                  !.dtmf = "?"] \in SipInterface
    <3>. HIDE DEF b, c, k, i, s
    <3>. QED BY <1>1, <2>1, <2>2, <2>3, <2>4 DEF SipInterface
  <2>. QED BY <2>5, <2>6
<1>8. CubeLeg(e, l) \in SipInterface
  <2>1. IfTls(l, Carried(e, "on", CubeCert(e))) \in TlsContext \cup {NoContext}
    BY <1>2, VendorContextsTyped
  <2>. QED BY <1>1, <1>3, <1>4, <1>5, <2>1 DEF CubeLeg, SipInterface
<1>9. OracleLeg(e, l) \in SipInterface
  <2>1. IfTls(l, Imported(e, "?", AnnotatedCert(e))) \in TlsContext \cup {NoContext}
    BY <1>2, VendorContextsTyped
  <2>2. \A b \in SipInterface, x \in TlsContext \cup {NoContext} :
          [b EXCEPT !.role = RoleByPeer(l), !.tls = x, !.keepalive = OffUnlessOn(@),
             !.normalized = FALSE, !.srtp = OffUnlessOn(@), !.dtmf = "?"] \in SipInterface
    BY <1>1, <1>3 DEF SipInterface
  <2>. QED BY <1>5, <2>1, <2>2 DEF OracleLeg
<1>10. RibbonLeg(e, l) \in SipInterface
  <2>1. IfTls(l, RibbonContext(e)) \in TlsContext \cup {NoContext}
    BY <1>2, VendorContextsTyped
  <2>. QED BY <1>3, <1>5, <2>1 DEF RibbonLeg, SipInterface
<1>11. PerimetaLeg(e, l) \in SipInterface
  <2>1. IfTls(l, PerimetaContext(e)) \in TlsContext \cup {NoContext}
    BY <1>2, VendorContextsTyped
  <2>2. \A b \in SipInterface, x \in TlsContext \cup {NoContext}, k \in Tri, s \in Tri :
          [b EXCEPT !.role = RoleByPeer(l), !.tls = x, !.keepalive = k, !.dtmf = "?", !.srtp = s]
            \in SipInterface
    BY <1>1 DEF SipInterface
  <2>. DEFINE k == IF l.keepalive = "on" THEN "on" ELSE "?"
  <2>3. k \in Tri
    BY <1>4
  <2>4. [Silenced(Plain(l)) EXCEPT !.role = RoleByPeer(l), !.tls = IfTls(l, PerimetaContext(e)),
           !.keepalive = k, !.dtmf = "?", !.srtp = "?"] \in SipInterface
    <3>. HIDE DEF k
    <3>. QED BY <1>4, <1>5, <2>1, <2>2, <2>3
  <2>. QED BY <2>4 DEF PerimetaLeg
<1>12. e.format \in Formats
  BY DEF Export
<1>. QED BY <1>6, <1>7, <1>8, <1>9, <1>10, <1>11, <1>12 DEF ParseLeg, Formats

LEMMA RealmsTyped ==
  ASSUME NEW e \in Export
  PROVE  ParseRealms(e) \in Seq(MediaRealm)
<1>1. e.address \in Addresses /\ e.local \in Addresses /\ e.nat \in Addresses
  BY DEF Export
<1>2. \A a \in Addresses, b \in Addresses, s \in Tri : Realm(a, b, s) \in Seq(MediaRealm)
  BY DEF Realm, MediaRealm, Roles
<1>3. TableAddress(e) \in Addresses /\ "?" \in Addresses
  BY <1>1 DEF TableAddress, Addresses
<1>4. OffUnlessOn(e.symmetric) \in Tri /\ OnUnlessOff(e.symmetric) \in Tri /\ "on" \in Tri
  BY DEF OffUnlessOn, OnUnlessOff, Tri
<1>5. << >> \in Seq(MediaRealm)
  OBVIOUS
<1>6. e.format \in Formats
  BY DEF Export
<1>7. CASE e.format = "ini"
  BY <1>1, <1>2, <1>4, <1>5, <1>7 DEF ParseRealms
<1>8. CASE e.format = "table"
  BY <1>1, <1>2, <1>3, <1>4, <1>5, <1>8 DEF ParseRealms
<1>9. CASE e.format \in {"cube", "ribbon"}
  BY <1>1, <1>2, <1>3, <1>4, <1>5, <1>9 DEF ParseRealms
<1>10. CASE e.format \in {"oracle", "perimeta"}
  BY <1>5, <1>10 DEF ParseRealms
<1>. QED BY <1>6, <1>7, <1>8, <1>9, <1>10 DEF Formats

\* Every parser returns a normalized configuration, whatever the export says or
\* leaves out (detect_and_parse, and what ParseAssumption asks of Parse): the
\* theorems about the pipeline hold for the parsers of the repository.
THEOREM ParsersReturnConfigurations ==
  ASSUME NEW e \in Export
  PROVE  ParseExport(e) \in NormalizedConfig
<1>1. /\ e.fqdn \in {"none", "name", "malformed", "ip"} /\ e.ios \in {"?", "fixed", "old", "oldIsr4k"}
      /\ e.legs \in Seq(Leg) /\ e.acls \in Seq(AccessControlEntry) /\ e.routes \subseteq Nat \X Nat
  BY DEF Export
<1>2. [i \in DOMAIN e.legs |-> ParseLeg(e, e.legs[i])] \in Seq(SipInterface)
  <2>1. PICK n \in Nat : DOMAIN e.legs = 1..n
    BY <1>1
  <2>2. \A i \in 1..n : ParseLeg(e, e.legs[i]) \in SipInterface
    BY <1>1, <2>1, LegsTyped
  <2>. QED BY <2>1, <2>2
<1>3. ParseRoutes(e) \in SUBSET (Roles \X Roles)
  <2>1. \A l : RoleByPeer(l) \in Roles
    BY DEF RoleByPeer, Roles
  <2>. QED BY <2>1 DEF ParseRoutes
<1>4. ParseClassified(e) \in Tri /\ "?" \in Tri
  BY DEF ParseClassified, Tri
<1>5. << >> \in Seq(AccessControlEntry)
  OBVIOUS
<1>. QED BY <1>1, <1>2, <1>3, <1>4, <1>5, RealmsTyped DEF ParseExport, NormalizedConfig

(* What the parsers keep of a leg. *)

LEMMA IniParts ==
  ASSUME NEW e, NEW l, NEW x, x = IniLeg(e, l)
  PROVE  /\ x.name = l.name /\ x.role = l.label /\ x.transport = Transport(l)
         /\ x.tls = (IF l.bound THEN Carried(e, OffUnlessOn(e.mtls), IniCert(e)) ELSE NoContext)
         /\ x.keepalive = OffUnlessOn(l.keepalive) /\ x.interval = l.interval
         /\ x.contact = l.contact /\ x.normalized = l.normalized /\ x.carried = l.coders.given
         /\ x.codecs = l.coders.list /\ x.dtmf = l.dtmf /\ x.srtp = OffUnlessOn(l.srtp)
BY DEF IniLeg, Plain

\* The coders of a leg that _CODER names.
NamedCodersOf(l) == l.coders.list \cap NamedCoders

LEMMA TableParts ==
  ASSUME NEW e, NEW l, NEW x, x = TableLeg(e, l)
  PROVE  /\ x.name = l.name /\ x.role = RoleByPeer(l) /\ x.transport = Transport(l)
         /\ x.tls = IfTls(l, Imported(e, "on", AnnotatedCert(e)))
         /\ x.keepalive = (IF "proxySet" \in l.refs THEN OffUnlessOn(l.keepalive) ELSE "?")
         /\ x.interval = (IF "proxySet" \in l.refs THEN l.interval ELSE -1)
         /\ x.contact = "?" /\ x.normalized = l.normalized
         /\ x.carried <=> ("profile" \in l.refs /\ l.coders.given /\ NamedCodersOf(l) # {})
         /\ x.codecs = (IF "profile" \in l.refs THEN NamedCodersOf(l) ELSE {})
         /\ x.dtmf = "?" /\ x.srtp = (IF "profile" \in l.refs THEN OffUnlessOn(l.srtp) ELSE "?")
<1>1. CASE "profile" \in l.refs
  BY <1>1 DEF TableLeg, EmptyIsNone, NamedOnly, NamedCodersOf, Silenced, Plain
<1>2. CASE "profile" \notin l.refs
  BY <1>2 DEF TableLeg, EmptyIsNone, NamedOnly, NamedCodersOf, Silenced, Plain
<1>. QED BY <1>1, <1>2

LEMMA CubeParts ==
  ASSUME NEW e, NEW l, NEW x, x = CubeLeg(e, l)
  PROVE  /\ x.name = l.name /\ x.role = RoleByEither(l) /\ x.transport = Transport(l)
         /\ x.tls = IfTls(l, Carried(e, "on", CubeCert(e)))
         /\ x.keepalive = (IF e.pinged THEN "on" ELSE OffUnlessOn(l.keepalive))
         /\ x.interval = l.interval /\ x.contact = "?" /\ x.normalized = l.normalized
         /\ x.carried = l.coders.given /\ x.codecs = l.coders.list
         /\ x.dtmf = l.dtmf /\ x.srtp = OffUnlessOn(l.srtp)
BY DEF CubeLeg, Plain

LEMMA OracleParts ==
  ASSUME NEW e, NEW l, NEW x, x = OracleLeg(e, l)
  PROVE  /\ x.name = l.name /\ x.role = RoleByPeer(l) /\ x.transport = Transport(l)
         /\ x.tls = IfTls(l, Imported(e, "?", AnnotatedCert(e)))
         /\ x.keepalive = OffUnlessOn(l.keepalive) /\ x.interval = l.interval
         /\ x.contact = "?" /\ ~x.normalized
         /\ x.carried <=> (l.coders.given /\ NamedCodersOf(l) # {})
         /\ x.codecs = NamedCodersOf(l) /\ x.dtmf = "?" /\ x.srtp = OffUnlessOn(l.srtp)
BY DEF OracleLeg, EmptyIsNone, NamedOnly, NamedCodersOf, Plain

LEMMA RibbonParts ==
  ASSUME NEW e, NEW l, NEW x, x = RibbonLeg(e, l)
  PROVE  /\ x.name = l.name /\ x.role = l.label /\ x.transport = Transport(l)
         /\ x.tls = IfTls(l, RibbonContext(e))
         /\ x.keepalive = OffUnlessOn(l.keepalive) /\ x.interval = -1
         /\ x.contact = "?" /\ x.normalized = l.normalized
         /\ x.carried <=> (l.coders.given /\ l.coders.list # {})
         /\ x.codecs = l.coders.list /\ x.dtmf = l.dtmf /\ x.srtp = OffUnlessOn(l.srtp)
BY DEF RibbonLeg, EmptyIsNone, Plain

LEMMA PerimetaParts ==
  ASSUME NEW e, NEW l, NEW x, x = PerimetaLeg(e, l)
  PROVE  /\ x.name = l.name /\ x.role = RoleByPeer(l) /\ x.transport = Transport(l)
         /\ x.tls = IfTls(l, PerimetaContext(e))
         /\ x.keepalive = (IF l.keepalive = "on" THEN "on" ELSE "?") /\ x.interval = l.interval
         /\ x.contact = "?" /\ x.normalized = l.normalized
         /\ ~x.carried /\ x.codecs = {} /\ x.dtmf = "?" /\ x.srtp = "?"
BY DEF PerimetaLeg, Silenced, Plain

\* Each format has a parser of its own.
LEMMA ParsersAre ==
  ASSUME NEW e, NEW l
  PROVE  /\ e.format = "ini" => ParseLeg(e, l) = IniLeg(e, l)
         /\ e.format = "table" => ParseLeg(e, l) = TableLeg(e, l)
         /\ e.format = "cube" => ParseLeg(e, l) = CubeLeg(e, l)
         /\ e.format = "oracle" => ParseLeg(e, l) = OracleLeg(e, l)
         /\ e.format = "ribbon" => ParseLeg(e, l) = RibbonLeg(e, l)
         /\ e.format = "perimeta" => ParseLeg(e, l) = PerimetaLeg(e, l)
<1>1. CASE e.format = "ini"
  BY <1>1 DEF ParseLeg
<1>2. CASE e.format = "table"
  BY <1>2 DEF ParseLeg
<1>3. CASE e.format = "cube"
  BY <1>3 DEF ParseLeg
<1>4. CASE e.format = "oracle"
  BY <1>4 DEF ParseLeg
<1>5. CASE e.format = "ribbon"
  BY <1>5 DEF ParseLeg
<1>6. CASE e.format = "perimeta"
  BY <1>6 DEF ParseLeg
<1>. QED BY <1>1, <1>2, <1>3, <1>4, <1>5, <1>6

LEMMA RolesAre ==
  ASSUME NEW e \in Export, NEW l
  PROVE  ParseLeg(e, l).role \in {l.label, RoleByPeer(l), RoleByEither(l)}
<1>1. e.format \in Formats
  BY DEF Export
<1>2. CASE e.format \in {"ini", "ribbon"}
  <2>1. IniLeg(e, l).role = l.label /\ RibbonLeg(e, l).role = l.label
    BY IniParts, RibbonParts
  <2>. QED BY <1>2, <2>1, ParsersAre
<1>3. CASE e.format = "cube"
  BY <1>3, ParsersAre, CubeParts
<1>4. CASE e.format = "table"
  BY <1>4, ParsersAre, TableParts
<1>5. CASE e.format = "oracle"
  BY <1>5, ParsersAre, OracleParts
<1>6. CASE e.format = "perimeta"
  <2>1. PerimetaLeg(e, l).role = RoleByPeer(l)
    BY PerimetaParts
  <2>. QED BY <1>6, <2>1, ParsersAre
<1>. QED BY <1>1, <1>2, <1>3, <1>4, <1>5, <1>6 DEF Formats

\* Whatever the format, the first leg to Teams that is so by its name and by
\* its peer is the Teams interface of the configuration.
LEMMA TeamsLegIsTeams ==
  ASSUME NEW e \in Export, HasTeamsLeg(e)
  PROVE  /\ HasTeams(ParseExport(e)) /\ Teams(ParseExport(e)) = ParseLeg(e, TeamsLeg(e))
         /\ TeamsLeg(e) \in Leg /\ TeamsLeg(e).hub
         /\ \E i \in DOMAIN e.legs : TeamsLeg(e) = e.legs[i]
<1>. DEFINE c == ParseExport(e)
            I == {i \in DOMAIN c.ifaces : IsTeams(c.ifaces[i])}
<1>1. e.legs \in Seq(Leg) /\ e.format \in Formats
  BY DEF Export
<1>2. TeamsLegs(e) \in SUBSET Nat /\ TeamsLegs(e) \subseteq DOMAIN e.legs /\ TeamsLegs(e) # {}
  BY <1>1 DEF TeamsLegs, HasTeamsLeg
<1>3. PICK k \in TeamsLegs(e) : \A j \in TeamsLegs(e) : k <= j
  BY <1>2, FirstPlace
<1>4. TeamsLeg(e) = e.legs[k]
  <2>1. First(TeamsLegs(e)) \in TeamsLegs(e) /\ \A j \in TeamsLegs(e) : First(TeamsLegs(e)) <= j
    BY <1>3 DEF First
  <2>2. First(TeamsLegs(e)) = k
    BY <1>2, <1>3, <2>1
  <2>. QED BY <2>2 DEF TeamsLeg
<1>5. e.legs[k].hub /\ e.legs[k].label = "teams" /\ k \in DOMAIN e.legs
  BY <1>2, <1>3, <1>4 DEF HasTeamsLeg
<1>6. c.ifaces = [i \in DOMAIN e.legs |-> ParseLeg(e, e.legs[i])]
  BY DEF ParseExport
<1>. HIDE DEF c
<1>7. \A i \in DOMAIN e.legs : IsTeams(ParseLeg(e, e.legs[i])) => i \in TeamsLegs(e)
  <2>. SUFFICES ASSUME NEW i \in DOMAIN e.legs, IsTeams(ParseLeg(e, e.legs[i]))
                PROVE  ToTeams(e.legs[i])
    BY DEF TeamsLegs
  <2>1. \A l : RoleByPeer(l) = "teams" => l.hub
    BY DEF RoleByPeer
  <2>2. \A l : RoleByEither(l) = "teams" => l.hub \/ l.label = "teams"
    BY DEF RoleByEither
  <2>3. ParseLeg(e, e.legs[i]).role = "teams"
    BY DEF IsTeams
  <2>. QED
    BY <2>1, <2>2, <2>3, RolesAre DEF ToTeams
<1>8. IsTeams(ParseLeg(e, e.legs[k]))
  <2>1. RoleByPeer(e.legs[k]) = "teams" /\ RoleByEither(e.legs[k]) = "teams"
    BY <1>5 DEF RoleByPeer, RoleByEither
  <2>2. ParseLeg(e, e.legs[k]).role = "teams"
    BY <1>5, <2>1, RolesAre
  <2>. QED BY <2>2 DEF IsTeams
<1>9. k \in I /\ I \subseteq TeamsLegs(e)
  BY <1>5, <1>6, <1>7, <1>8
<1>10. First(I) = k
  <2>. HIDE DEF I
  <2>1. \A j \in I : k <= j
    BY <1>3, <1>9
  <2>2. First(I) \in I /\ \A j \in I : First(I) <= j
    BY <1>9, <2>1 DEF First
  <2>. QED BY <1>2, <1>9, <2>1, <2>2
<1>11. HasTeams(c)
  BY <1>9 DEF HasTeams
<1>12. Teams(c) = c.ifaces[k]
  BY <1>10 DEF Teams
<1>13. c.ifaces[k] = ParseLeg(e, e.legs[k])
  BY <1>5, <1>6
<1>14. e.legs[k] \in Leg
  BY <1>1, <1>5
<1>. QED BY <1>4, <1>5, <1>11, <1>12, <1>13, <1>14 DEF c
(* What the checks report. *)

LEMMA WhenId ==
  ASSUME NEW cond, NEW id, NEW sev, NEW fs, When(cond, id, sev) \subseteq fs
  PROVE  cond => id \in Ids(fs)
<1>1. cond => [id |-> id, sev |-> sev, at |-> 0] \in fs
  BY InWhen
<1>. QED BY <1>1 DEF Ids

LEMMA EachId ==
  ASSUME NEW places, NEW id, NEW sev, NEW fs, Each(places, id, sev) \subseteq fs
  PROVE  places # {} => id \in Ids(fs)
<1>1. \A i \in places : [id |-> id, sev |-> sev, at |-> i] \in fs
  BY InEach
<1>2. \A f \in fs : f.id \in Ids(fs)
  BY DEF Ids
<1>3. \A i \in places : [id |-> id, sev |-> sev, at |-> i].id \in Ids(fs)
  BY <1>1, <1>2
<1>. QED BY <1>3

LEMMA LegReported ==
  ASSUME NEW c, HasTeams(c), NEW t, t = Teams(c), NEW ids, ids = Ids(AllFindings(c))
  PROVE  /\ t.transport # "tls" => "B.SIP.TRANSPORT" \in ids
         /\ t.keepalive = "off" => "B.SIP.OPTIONS_KEEPALIVE" \in ids
         /\ ~IntervalOk(t.interval) => "B.SIP.OPTIONS_INTERVAL" \in ids
         /\ t.contact = "outside" /\ c.fqdn # "none" => "B.SIP.CONTACT_FQDN" \in ids
         /\ t.carried /\ t.codecs = {} => "E.CODEC.NONE_OFFERED" \in ids
         /\ t.carried /\ t.codecs # {} /\ t.codecs \cap (TeamsCodecs \cup {"AMR-WB"}) = {}
              => "E.CODEC.NO_TEAMS_OVERLAP" \in ids
         /\ t.dtmf = "inband" => "E.DTMF.INBAND_TEAMS" \in ids
         /\ c.classified = "off" => "G.CLASS.UNCLASSIFIED" \in ids
<1>. DEFINE fs == AllFindings(c)
<1>1. TeamsInterop(c, t) \subseteq fs /\ TeamsCodec(t) \subseteq fs /\ Routing(c) \subseteq fs
  BY DEF AllFindings, Interop, Codec
<1>2. /\ When(t.transport # "tls", "B.SIP.TRANSPORT", "HIGH") \subseteq TeamsInterop(c, t)
      /\ When(t.keepalive = "off", "B.SIP.OPTIONS_KEEPALIVE", "MEDIUM") \subseteq TeamsInterop(c, t)
      /\ When(~IntervalOk(t.interval), "B.SIP.OPTIONS_INTERVAL", "MEDIUM") \subseteq TeamsInterop(c, t)
      /\ When(t.contact = "outside" /\ c.fqdn # "none", "B.SIP.CONTACT_FQDN", "HIGH")
           \subseteq TeamsInterop(c, t)
  BY DEF TeamsInterop, RequiredTransport
<1>3. /\ When(t.carried /\ t.codecs = {}, "E.CODEC.NONE_OFFERED", "HIGH") \subseteq TeamsCodec(t)
      /\ When(t.carried /\ t.codecs # {} /\ t.codecs \cap (TeamsCodecs \cup {"AMR-WB"}) = {},
              "E.CODEC.NO_TEAMS_OVERLAP", "HIGH") \subseteq TeamsCodec(t)
      /\ When(t.dtmf = "inband", "E.DTMF.INBAND_TEAMS", "MEDIUM") \subseteq TeamsCodec(t)
  BY DEF TeamsCodec, CarriesCodecs
<1>4. When(c.classified = "off", "G.CLASS.UNCLASSIFIED", "HIGH") \subseteq Routing(c)
  BY DEF Routing
<1>. HIDE DEF fs
<1>5. t.transport # "tls" => "B.SIP.TRANSPORT" \in Ids(fs)
  BY <1>1, <1>2, WhenId
<1>6. t.keepalive = "off" => "B.SIP.OPTIONS_KEEPALIVE" \in Ids(fs)
  BY <1>1, <1>2, WhenId
<1>7. ~IntervalOk(t.interval) => "B.SIP.OPTIONS_INTERVAL" \in Ids(fs)
  BY <1>1, <1>2, WhenId
<1>8. t.contact = "outside" /\ c.fqdn # "none" => "B.SIP.CONTACT_FQDN" \in Ids(fs)
  BY <1>1, <1>2, WhenId
<1>9. t.carried /\ t.codecs = {} => "E.CODEC.NONE_OFFERED" \in Ids(fs)
  BY <1>1, <1>3, WhenId
<1>10. t.carried /\ t.codecs # {} /\ t.codecs \cap (TeamsCodecs \cup {"AMR-WB"}) = {}
         => "E.CODEC.NO_TEAMS_OVERLAP" \in Ids(fs)
  BY <1>1, <1>3, WhenId
<1>11. t.dtmf = "inband" => "E.DTMF.INBAND_TEAMS" \in Ids(fs)
  BY <1>1, <1>3, WhenId
<1>12. c.classified = "off" => "G.CLASS.UNCLASSIFIED" \in Ids(fs)
  BY <1>1, <1>4, WhenId
<1>13. ids = Ids(fs)
  BY DEF fs
<1>. QED BY <1>5, <1>6, <1>7, <1>8, <1>9, <1>10, <1>11, <1>12, <1>13

LEMMA TlsReported ==
  ASSUME NEW c, HasTeams(c), NEW t, t = Teams(c), NEW x, x = t.tls, x # NoContext,
         NEW ids, ids = Ids(AllFindings(c))
  PROVE  /\ t.srtp = "off" => "C.SRTP.DISABLED" \in ids
         /\ x.mtls = "off" => "C.TLS.MTLS_DISABLED" \in ids
         /\ x.minTls \in {"1.0", "1.1"} => "C.TLS.WEAK_VERSION" \in ids
         /\ x.ciphers = "foreign" => "C.TLS.CIPHER_NOT_ALLOWED" \in ids
         /\ x.introspectable /\ RequiredRoots \ x.roots # {} => "C.CA.ROOT_MISSING" \in ids
         /\ c.ios \in {"old", "oldIsr4k"} => "C.PLATFORM.IOSXE_EKU_FLOOR" \in ids
<1>. DEFINE fs == AllFindings(c)
<1>1. Context(c, t, x) \subseteq fs
  BY DEF AllFindings, CaCompliance
<1>2. /\ MediaTrust(t, x) \subseteq fs /\ TlsPolicy(x) \subseteq fs /\ TrustStore(x) \subseteq fs
      /\ Platform(c) \subseteq fs /\ When(x.mtls = "off", "C.TLS.MTLS_DISABLED", "HIGH") \subseteq fs
  BY <1>1 DEF Context
<1>3. When(t.srtp = "off", "C.SRTP.DISABLED", "HIGH") \subseteq MediaTrust(t, x)
  BY DEF MediaTrust
<1>4. /\ When(x.minTls \in {"1.0", "1.1"}, "C.TLS.WEAK_VERSION", "HIGH") \subseteq TlsPolicy(x)
      /\ When(x.ciphers = "foreign", "C.TLS.CIPHER_NOT_ALLOWED", "CRITICAL") \subseteq TlsPolicy(x)
  BY DEF TlsPolicy
<1>5. When(Missing(x) # {}, "C.CA.ROOT_MISSING", "CRITICAL") \subseteq TrustStore(x)
  BY DEF TrustStore
<1>6. x.introspectable => Missing(x) = RequiredRoots \ x.roots
  BY DEF Missing, NotFound, Demanded, Unavailable
<1>7. /\ When(c.ios = "old", "C.PLATFORM.IOSXE_EKU_FLOOR", "LOW") \subseteq Platform(c)
      /\ When(c.ios = "oldIsr4k", "C.PLATFORM.IOSXE_EKU_FLOOR", "MEDIUM") \subseteq Platform(c)
  BY DEF Platform
<1>. HIDE DEF fs
<1>8. t.srtp = "off" => "C.SRTP.DISABLED" \in Ids(fs)
  BY <1>2, <1>3, WhenId
<1>9. x.mtls = "off" => "C.TLS.MTLS_DISABLED" \in Ids(fs)
  BY <1>2, WhenId
<1>10. x.minTls \in {"1.0", "1.1"} => "C.TLS.WEAK_VERSION" \in Ids(fs)
  BY <1>2, <1>4, WhenId
<1>11. x.ciphers = "foreign" => "C.TLS.CIPHER_NOT_ALLOWED" \in Ids(fs)
  BY <1>2, <1>4, WhenId
<1>12. Missing(x) # {} => "C.CA.ROOT_MISSING" \in Ids(fs)
  BY <1>2, <1>5, WhenId
<1>13. c.ios \in {"old", "oldIsr4k"} => "C.PLATFORM.IOSXE_EKU_FLOOR" \in Ids(fs)
  <2>1. c.ios = "old" => "C.PLATFORM.IOSXE_EKU_FLOOR" \in Ids(fs)
    BY <1>2, <1>7, WhenId
  <2>2. c.ios = "oldIsr4k" => "C.PLATFORM.IOSXE_EKU_FLOOR" \in Ids(fs)
    BY <1>2, <1>7, WhenId
  <2>. QED BY <2>1, <2>2
<1>14. ids = Ids(fs)
  BY DEF fs
<1>. QED BY <1>6, <1>8, <1>9, <1>10, <1>11, <1>12, <1>13, <1>14

LEMMA LeafReported ==
  ASSUME NEW c, HasTeams(c), NEW x, x = Teams(c).tls, x # NoContext, NEW k, k = x.cert, k # NoCert,
         NEW ids, ids = Ids(AllFindings(c))
  PROVE  /\ "server" \notin k.ekus => "C.CERT.EKU_NO_SERVERAUTH" \in ids
         /\ k.expiry \in {"past", "soon"} => "C.CERT.EXPIRY" \in ids
         /\ k.pem = "read" /\ k.chain = "selfSigned" => "C.CERT.SELF_SIGNED" \in ids
         /\ c.fqdn # "none" /\ ~k.covers => "C.CERT.FQDN_MISMATCH" \in ids
<1>. DEFINE fs == AllFindings(c)
            L == LeafCert(k, c, Demanded(x))
<1>1. L \subseteq fs
  BY DEF AllFindings, CaCompliance, Context, LeafFindings
<1>2. /\ When("server" \notin k.ekus, "C.CERT.EKU_NO_SERVERAUTH", "HIGH") \subseteq L
      /\ When(k.expiry = "past", "C.CERT.EXPIRY", "CRITICAL") \subseteq L
      /\ When(k.expiry = "soon", "C.CERT.EXPIRY", "MEDIUM") \subseteq L
      /\ When(c.fqdn # "none" /\ ~k.covers, "C.CERT.FQDN_MISMATCH", "HIGH") \subseteq L
  BY DEF LeafCert, Usage, Expiry
<1>3. k.pem = "read" => When(k.chain = "selfSigned", "C.CERT.SELF_SIGNED", "HIGH") \subseteq L
  BY DEF LeafCert, Chain
<1>. HIDE DEF fs, L
<1>4. "server" \notin k.ekus => "C.CERT.EKU_NO_SERVERAUTH" \in Ids(fs)
  BY <1>1, <1>2, WhenId
<1>5. k.expiry \in {"past", "soon"} => "C.CERT.EXPIRY" \in Ids(fs)
  <2>1. k.expiry = "past" => "C.CERT.EXPIRY" \in Ids(fs)
    BY <1>1, <1>2, WhenId
  <2>2. k.expiry = "soon" => "C.CERT.EXPIRY" \in Ids(fs)
    BY <1>1, <1>2, WhenId
  <2>. QED BY <2>1, <2>2
<1>6. k.pem = "read" /\ k.chain = "selfSigned" => "C.CERT.SELF_SIGNED" \in Ids(fs)
  BY <1>1, <1>3, WhenId
<1>7. c.fqdn # "none" /\ ~k.covers => "C.CERT.FQDN_MISMATCH" \in Ids(fs)
  BY <1>1, <1>2, WhenId
<1>8. ids = Ids(fs)
  BY DEF fs
<1>. QED BY <1>4, <1>5, <1>6, <1>7, <1>8

LEMMA RestReported ==
  ASSUME NEW c, NEW r, NEW ids, ids = Ids(AllFindings(c))
  PROVE  /\ c.fqdn \in {"malformed", "ip"} => "A.SYN.FQDN_FORMAT" \in ids
         /\ c.realms = <<r>> /\ r.role = "unknown" =>
              /\ r.advertised = "private4" => "D.NAT.PRIVATE_ADVERTISED" \in ids
              /\ r.advertised = "?" /\ r.local = "?" => "D.NAT.NO_PUBLIC_IP" \in ids
              /\ r.symmetric = "off" => "D.NAT.NO_SYMMETRIC_RTP" \in ids
<1>. DEFINE fs == AllFindings(c)
            public == {i \in DOMAIN c.realms : c.realms[i].role # "internal"}
            P == {i \in public : c.realms[i].advertised = "?" /\ ~LocalPublic(c.realms[i])}
            Q == {i \in public : c.realms[i].advertised = "private4"}
            S == {i \in DOMAIN c.realms : c.realms[i].symmetric = "off"}
<1>1. SyntaxSemantic(c) \subseteq fs /\ NatTraversal(c) \subseteq fs
  BY DEF AllFindings
<1>2. When(c.fqdn \in {"malformed", "ip"}, "A.SYN.FQDN_FORMAT", "MEDIUM") \subseteq SyntaxSemantic(c)
  BY DEF SyntaxSemantic
<1>3. /\ Each(P, "D.NAT.NO_PUBLIC_IP", "HIGH") \subseteq NatTraversal(c)
      /\ Each(Q, "D.NAT.PRIVATE_ADVERTISED", "CRITICAL") \subseteq NatTraversal(c)
      /\ Each(S, "D.NAT.NO_SYMMETRIC_RTP", "MEDIUM") \subseteq NatTraversal(c)
  BY DEF NatTraversal
<1>4. c.realms = <<r>> /\ r.role = "unknown" =>
        /\ r.advertised = "private4" => 1 \in Q
        /\ r.advertised = "?" /\ r.local = "?" => 1 \in P
        /\ r.symmetric = "off" => 1 \in S
  BY DEF LocalPublic
<1>. HIDE DEF fs, P, Q, S
<1>5. c.fqdn \in {"malformed", "ip"} => "A.SYN.FQDN_FORMAT" \in Ids(fs)
  BY <1>1, <1>2, WhenId
<1>6. P # {} => "D.NAT.NO_PUBLIC_IP" \in Ids(fs)
  BY <1>1, <1>3, EachId
<1>7. Q # {} => "D.NAT.PRIVATE_ADVERTISED" \in Ids(fs)
  BY <1>1, <1>3, EachId
<1>8. S # {} => "D.NAT.NO_SYMMETRIC_RTP" \in Ids(fs)
  BY <1>1, <1>3, EachId
<1>9. ids = Ids(fs)
  BY DEF fs
<1>. QED BY <1>4, <1>5, <1>6, <1>7, <1>8, <1>9
(* A fault that an export shows is found. *)

LEMMA CarriesAre ==
  /\ Carries["ini"] = Carries.ini /\ Carries["table"] = Carries.table
  /\ Carries["cube"] = Carries.cube /\ Carries["oracle"] = Carries.oracle
  /\ Carries["ribbon"] = Carries.ribbon /\ Carries["perimeta"] = Carries.perimeta
OBVIOUS

\* Which formats have a line for an address behind a NAT, for latching and for
\* the classification.
LEMMA WhoCarries ==
  ASSUME NEW v \in Formats
  PROVE  /\ "address" \in Carries[v] /\ "nat" \notin Carries[v] => v \in {"ini", "cube", "ribbon"}
         /\ "nat" \in Carries[v] \/ "classified" \in Carries[v] => v = "table"
         /\ "symmetric" \in Carries[v] => v \in {"ini", "cube", "ribbon"}
<1>1. "nat" \in Carries.table
  BY DEF Carries
<1>2. /\ "nat" \notin Carries.ini /\ "classified" \notin Carries.ini
      /\ "nat" \notin Carries.cube /\ "classified" \notin Carries.cube
      /\ "nat" \notin Carries.ribbon /\ "classified" \notin Carries.ribbon
  BY DEF Carries, Store
<1>3. {"address", "nat", "symmetric", "classified"} \cap Carries.oracle = {}
  BY DEF Carries, Store
<1>4. {"address", "nat", "symmetric", "classified"} \cap Carries.perimeta = {}
  BY DEF Carries
<1>5. "symmetric" \notin Carries.table
  BY DEF Carries, Store
<1>. QED BY <1>1, <1>2, <1>3, <1>4, <1>5, CarriesAre DEF Formats

LEMMA OnlyCubeHasIos == ASSUME NEW v \in Formats, "ios" \in Carries[v] PROVE v = "cube"
<1>1. /\ "ios" \notin Carries.ini /\ "ios" \notin Carries.table /\ "ios" \notin Carries.oracle
      /\ "ios" \notin Carries.ribbon /\ "ios" \notin Carries.perimeta
  BY DEF Carries, Store
<1>. QED BY <1>1, CarriesAre DEF Formats

LEMMA LegSays ==
  ASSUME NEW e \in Export, NEW t \in Leg, t.hub, NEW x, x = ParseLeg(e, t),
         NEW C, C = Carries[e.format]
  PROVE  /\ x.transport = Transport(t)
         /\ Unpinged(e, t) /\ Reached(e, t) => x.keepalive = "off"
         /\ "interval" \in C /\ Reached(e, t) => x.interval = t.interval
         /\ "contact" \in C => x.contact = t.contact
         /\ "codecs" \in C /\ Referred(e, t) /\ t.coders.given
              /\ Legible(e, t) # {} => x.carried /\ x.codecs = Legible(e, t)
         /\ e.format \in {"ini", "cube"} => x.carried = t.coders.given /\ x.codecs = t.coders.list
         /\ "dtmf" \in C => x.dtmf = t.dtmf
         /\ "srtp" \in C /\ Referred(e, t) /\ t.srtp = "off" => x.srtp = "off"
<1>1. OffUnlessOn("off") = "off"
  BY DEF OffUnlessOn
<1>9. Legible(e, t) = IF e.format \in {"table", "oracle"} THEN NamedCodersOf(t) ELSE t.coders.list
  BY DEF Legible, NamedCodersOf
<1>2. CASE e.format = "ini"
  <2>1. x = IniLeg(e, t)
    BY <1>2, ParsersAre
  <2>. QED BY <1>1, <1>2, <1>9, <2>1, IniParts DEF Unpinged
<1>3. CASE e.format = "table"
  <2>1. x = TableLeg(e, t) /\ Tabled(e)
    BY <1>3, ParsersAre DEF Tabled
  <2>2. C = Carries.table
    BY <1>3
  <2>3. "contact" \notin C /\ "dtmf" \notin C
    BY <2>2 DEF Carries, Store
  <2>. QED BY <1>1, <1>3, <1>9, <2>1, <2>3, TableParts DEF Unpinged, Reached, Referred
<1>4. CASE e.format = "cube"
  <2>1. x = CubeLeg(e, t)
    BY <1>4, ParsersAre
  <2>2. C = Carries.cube
    BY <1>4
  <2>3. "contact" \notin C
    BY <2>2 DEF Carries, Store
  <2>. QED BY <1>1, <1>4, <1>9, <2>1, <2>3, CubeParts DEF Unpinged
<1>5. CASE e.format = "oracle"
  <2>1. x = OracleLeg(e, t)
    BY <1>5, ParsersAre
  <2>2. C = Carries.oracle
    BY <1>5
  <2>3. "contact" \notin C /\ "dtmf" \notin C
    BY <2>2 DEF Carries, Store
  <2>. QED BY <1>1, <1>5, <1>9, <2>1, <2>3, OracleParts DEF Unpinged
<1>6. CASE e.format = "ribbon"
  <2>1. x = RibbonLeg(e, t)
    BY <1>6, ParsersAre
  <2>2. C = Carries.ribbon
    BY <1>6
  <2>3. "contact" \notin C /\ "interval" \notin C
    BY <2>2 DEF Carries, Store
  <2>. QED BY <1>1, <1>6, <1>9, <2>1, <2>3, RibbonParts DEF Unpinged
<1>7. CASE e.format = "perimeta"
  <2>1. x = PerimetaLeg(e, t)
    BY <1>7, ParsersAre
  <2>2. C = Carries.perimeta
    BY <1>7
  <2>3. "contact" \notin C /\ "codecs" \notin C /\ "dtmf" \notin C /\ "srtp" \notin C
    BY <2>2 DEF Carries, Store
  <2>. QED BY <1>7, <2>1, <2>3, PerimetaParts DEF Unpinged
<1>8. e.format \in Formats
  BY DEF Export
<1>. QED BY <1>2, <1>3, <1>4, <1>5, <1>6, <1>7, <1>8 DEF Formats
\* What the TLS profile of a format has lines for: none without the profile.
Profiled(e) == Carries[e.format] \ (IF e.format = "ribbon" /\ ~e.profile
                                    THEN {"mtls", "minTls", "ciphers"} ELSE {})
Seen(e) == "pem" \in Carries[e.format] /\ e.pem = "read" /\ (e.format = "cube" => e.named)
Stated(e) == "listed" \in Carries[e.format] /\ e.named /\ e.pem = "none"

LEMMA LeafParts ==
  ASSUME NEW e, NEW d, NEW k, k = Leaf(e, d)
  PROVE  /\ k.pem = e.pem /\ k.chain = e.chain
         /\ e.pem = "read" => k.ekus = e.leaf.ekus /\ k.expiry = e.leaf.expiry
                              /\ k.covers = e.leaf.covers
         /\ e.pem # "read" => k.ekus = d.ekus /\ k.expiry = d.expiry /\ k.covers = d.covers
BY DEF Leaf

LEMMA CertSays ==
  ASSUME NEW e \in Export,
         NEW k \in {IniCert(e), AnnotatedCert(e), CubeCert(e), RibbonCert(e)},
         k = (IF e.format = "ini" THEN IniCert(e) ELSE IF e.format = "cube" THEN CubeCert(e)
              ELSE IF e.format = "ribbon" THEN RibbonCert(e) ELSE AnnotatedCert(e))
  PROVE  /\ Seen(e) => /\ k # NoCert /\ k.pem = "read" /\ k.ekus = e.leaf.ekus
                       /\ k.expiry = e.leaf.expiry /\ k.chain = e.chain
         /\ Stated(e) => k # NoCert /\ k.covers = e.listed.covers
<1>1. \A d \in Details : Leaf(e, d) # NoCert
  BY LeafTyped, NoneAssumption
<1>2. e.listed \in Details
  BY DEF Export
<1>3. Blank \in Details
  BY DEF Blank, Details, Tri
<1>4. CASE e.format = "ini"
  <2>. DEFINE d == [e.listed EXCEPT !.chainComplete = OffUnlessOn(@)]
  <2>1. d \in Details /\ d.covers = e.listed.covers
    BY <1>2 DEF Details, OffUnlessOn, Tri
  <2>2. Seen(e) \/ Stated(e) => k = Leaf(e, d)
    BY <1>4 DEF IniCert, Seen, Stated
  <2>. HIDE DEF d
  <2>3. Seen(e) => e.pem = "read"
    BY DEF Seen
  <2>4. Stated(e) => e.pem = "none"
    BY DEF Stated
  <2>. QED BY <1>1, <2>1, <2>2, <2>3, <2>4, LeafParts
<1>5. CASE e.format = "cube"
  <2>. DEFINE d == [Blank EXCEPT !.covers = e.listed.covers, !.chainComplete = "on"]
  <2>1. d \in Details /\ d.covers = e.listed.covers
    BY <1>2, <1>3 DEF Details, Tri, Blank
  <2>2. Seen(e) \/ Stated(e) => k = Leaf(e, d)
    BY <1>5 DEF CubeCert, Seen, Stated
  <2>. HIDE DEF d
  <2>3. Seen(e) => e.pem = "read"
    BY DEF Seen
  <2>4. Stated(e) => e.pem = "none"
    BY DEF Stated
  <2>. QED BY <1>1, <2>1, <2>2, <2>3, <2>4, LeafParts
<1>6. CASE e.format = "ribbon"
  <2>. DEFINE d == [Blank EXCEPT !.covers = TRUE]
  <2>1. d \in Details
    BY <1>3 DEF Details
  <2>2. Seen(e) => k = Leaf(e, d)
    BY <1>6 DEF RibbonCert, Seen
  <2>. HIDE DEF d
  <2>3. Seen(e) => e.pem = "read"
    BY DEF Seen
  <2>4. ~Stated(e)
    BY <1>6 DEF Stated, Carries, Store
  <2>. QED BY <1>1, <2>1, <2>2, <2>3, <2>4, LeafParts
<1>7. CASE e.format \notin {"ini", "cube", "ribbon"}
  <2>1. Seen(e) => k = Leaf(e, Blank)
    BY <1>7 DEF AnnotatedCert, Seen
  <2>2. Seen(e) => e.pem = "read"
    BY DEF Seen
  <2>3. e.format \in {"table", "oracle", "perimeta"}
    BY <1>7 DEF Export, Formats
  <2>4. ~Stated(e)
    BY <2>3 DEF Stated, Carries, Store
  <2>. QED BY <1>1, <1>3, <2>1, <2>2, <2>4, LeafParts
<1>. QED BY <1>4, <1>5, <1>6, <1>7

LEMMA CarriedParts ==
  ASSUME NEW e, NEW m, NEW k, NEW x, x = Carried(e, m, k)
  PROVE  /\ x.mtls = m /\ x.cert = k /\ x.roots = e.roots /\ x.introspectable
         /\ x.minTls = e.minTls /\ x.ciphers = e.ciphers
BY DEF Carried
LEMMA ImportedParts ==
  ASSUME NEW e, NEW m, NEW k, NEW x, x = Imported(e, m, k)
  PROVE  /\ x.mtls = m /\ x.cert = k /\ x.roots = {} /\ ~x.introspectable
         /\ x.minTls = e.minTls /\ x.ciphers = e.ciphers
BY DEF Imported, Carried
LEMMA RibbonContextParts ==
  ASSUME NEW e, NEW x, x = RibbonContext(e)
  PROVE  /\ x.cert = RibbonCert(e) /\ x.roots = e.roots /\ x.introspectable
         /\ e.profile => /\ x.mtls = OffUnlessOn(e.mtls) /\ x.minTls = e.minTls
                         /\ x.ciphers = e.ciphers
         /\ ~e.profile => x.mtls = "?" /\ x.minTls = "?" /\ x.ciphers = "?"
BY DEF RibbonContext, Carried
LEMMA PerimetaContextParts ==
  ASSUME NEW e, NEW x, x = PerimetaContext(e)
  PROVE  /\ x.mtls = "on" /\ x.cert = NoCert /\ x.roots = {} /\ ~x.introspectable
         /\ x.minTls = "?" /\ x.ciphers = "?"
BY DEF PerimetaContext, Imported, Carried

\* The context of a leg over TLS, in each format.
LEMMA ContextsAre ==
  ASSUME NEW e \in Export, NEW t \in Leg, Transport(t) = "tls", e.format = "ini" => t.bound,
         NEW x, x = ParseLeg(e, t).tls
  PROVE  /\ x \in TlsContext /\ x # NoContext
         /\ e.format = "ini" => x = Carried(e, OffUnlessOn(e.mtls), IniCert(e))
         /\ e.format = "table" => x = Imported(e, "on", AnnotatedCert(e))
         /\ e.format = "cube" => x = Carried(e, "on", CubeCert(e))
         /\ e.format = "oracle" => x = Imported(e, "?", AnnotatedCert(e))
         /\ e.format = "ribbon" => x = RibbonContext(e)
         /\ e.format = "perimeta" => x = PerimetaContext(e)
<1>1. \A y : IfTls(t, y) = y
  BY DEF IfTls
<1>2. e.format = "ini" => x = Carried(e, OffUnlessOn(e.mtls), IniCert(e))
  BY ParsersAre, IniParts
<1>3. e.format = "table" => x = Imported(e, "on", AnnotatedCert(e))
  BY <1>1, ParsersAre, TableParts
<1>4. e.format = "cube" => x = Carried(e, "on", CubeCert(e))
  BY <1>1, ParsersAre, CubeParts
<1>5. e.format = "oracle" => x = Imported(e, "?", AnnotatedCert(e))
  BY <1>1, ParsersAre, OracleParts
<1>6. e.format = "ribbon" => x = RibbonContext(e)
  BY <1>1, ParsersAre, RibbonParts
<1>7. e.format = "perimeta" => x = PerimetaContext(e)
  BY <1>1, ParsersAre, PerimetaParts
<1>8. e.format \in Formats
  BY DEF Export
<1>9. x \in TlsContext
  BY <1>2, <1>3, <1>4, <1>5, <1>6, <1>7, <1>8, VendorContextsTyped DEF Formats
<1>. QED BY <1>2, <1>3, <1>4, <1>5, <1>6, <1>7, <1>9, NoneAssumption

LEMMA TlsSays ==
  ASSUME NEW e \in Export, NEW t \in Leg, Transport(t) = "tls", e.format = "ini" => t.bound,
         NEW x, x = ParseLeg(e, t).tls
  PROVE  /\ "mtls" \in Profiled(e) /\ e.mtls = "off" => x.mtls = "off"
         /\ "minTls" \in Profiled(e) => x.minTls = e.minTls
         /\ "ciphers" \in Profiled(e) => x.ciphers = e.ciphers
         /\ "roots" \in Profiled(e) => x.roots = e.roots /\ x.introspectable
         /\ Seen(e) => /\ x.cert # NoCert /\ x.cert.pem = "read" /\ x.cert.ekus = e.leaf.ekus
                       /\ x.cert.expiry = e.leaf.expiry /\ x.cert.chain = e.chain
         /\ Stated(e) => x.cert # NoCert /\ x.cert.covers = e.listed.covers
<1>1. CASE e.format = "ini"
  <2>1. x = Carried(e, OffUnlessOn(e.mtls), IniCert(e))
    BY <1>1, ContextsAre
  <2>2. x.cert = IniCert(e)
    BY <2>1, CarriedParts
  <2>. QED BY <1>1, <2>1, <2>2, CarriedParts, CertSays DEF OffUnlessOn
<1>2. CASE e.format = "table"
  <2>1. x = Imported(e, "on", AnnotatedCert(e))
    BY <1>2, ContextsAre
  <2>2. "mtls" \notin Profiled(e) /\ "roots" \notin Profiled(e)
    BY <1>2 DEF Profiled, Carries, Store
  <2>3. x.cert = AnnotatedCert(e)
    BY <2>1, ImportedParts
  <2>. QED BY <1>2, <2>1, <2>2, <2>3, ImportedParts, CertSays
<1>3. CASE e.format = "cube"
  <2>1. x = Carried(e, "on", CubeCert(e))
    BY <1>3, ContextsAre
  <2>2. "mtls" \notin Profiled(e)
    BY <1>3 DEF Profiled, Carries, Store
  <2>3. x.cert = CubeCert(e)
    BY <2>1, CarriedParts
  <2>. QED BY <1>3, <2>1, <2>2, <2>3, CarriedParts, CertSays
<1>4. CASE e.format = "oracle"
  <2>1. x = Imported(e, "?", AnnotatedCert(e))
    BY <1>4, ContextsAre
  <2>2. "mtls" \notin Profiled(e) /\ "roots" \notin Profiled(e)
    BY <1>4 DEF Profiled, Carries, Store
  <2>3. x.cert = AnnotatedCert(e)
    BY <2>1, ImportedParts
  <2>. QED BY <1>4, <2>1, <2>2, <2>3, ImportedParts, CertSays
<1>5. CASE e.format = "ribbon"
  <2>1. x = RibbonContext(e)
    BY <1>5, ContextsAre
  <2>2. ~e.profile => "mtls" \notin Profiled(e) /\ "minTls" \notin Profiled(e)
                        /\ "ciphers" \notin Profiled(e)
    BY <1>5 DEF Profiled
  <2>3. x.cert = RibbonCert(e)
    BY <2>1, RibbonContextParts
  <2>. QED BY <1>5, <2>1, <2>2, <2>3, RibbonContextParts, CertSays DEF OffUnlessOn
<1>6. CASE e.format = "perimeta"
  <2>1. /\ "mtls" \notin Profiled(e) /\ "minTls" \notin Profiled(e) /\ "roots" \notin Profiled(e)
        /\ "ciphers" \notin Profiled(e) /\ ~Seen(e) /\ ~Stated(e)
    BY <1>6 DEF Profiled, Carries, Seen, Stated
  <2>. QED BY <2>1
<1>. QED BY <1>1, <1>2, <1>3, <1>4, <1>5, <1>6 DEF Export, Formats
LEMMA LegFaultsFound ==
  ASSUME NEW e \in Export, HasTeamsLeg(e), NEW t, t = TeamsLeg(e),
         NEW ids, ids = Ids(AllFindings(ParseExport(e)))
  PROVE  DueOfLeg(e, t) \subseteq ids
<1>. DEFINE c == ParseExport(e)
            x == ParseLeg(e, t)
            C == Carries[e.format]
            reached == Reached(e, t)
            referred == Referred(e, t)
<1>1. t \in Leg /\ t.hub /\ HasTeams(c) /\ Teams(c) = x
  BY TeamsLegIsTeams
<1>2. e.format # "perimeta" => c.fqdn = e.fqdn
  BY DEF ParseExport
<1>3. "contact" \in C => c.fqdn = e.fqdn
  BY <1>2, CarriesAre DEF Carries
<1>. HIDE DEF c, x
<1>4. Transport(t) \in {"tcp", "udp"} => "B.SIP.TRANSPORT" \in ids
  BY <1>1, LegSays, LegReported DEF c, x
<1>5. Unpinged(e, t) /\ reached => "B.SIP.OPTIONS_KEEPALIVE" \in ids
  BY <1>1, LegSays, LegReported DEF c, x
<1>6. "interval" \in C /\ reached /\ ~IntervalOk(t.interval) => "B.SIP.OPTIONS_INTERVAL" \in ids
  <2>1. "interval" \in C /\ reached => x.interval = t.interval
    BY <1>1, LegSays DEF x
  <2>. QED BY <1>1, <2>1, LegReported DEF c
<1>7. "contact" \in C /\ e.fqdn # "none" /\ t.contact = "outside" => "B.SIP.CONTACT_FQDN" \in ids
  <2>1. "contact" \in C => x.contact = t.contact
    BY <1>1, LegSays DEF x
  <2>. QED BY <1>1, <1>3, <2>1, LegReported DEF c
<1>8. "codecs" \in C /\ referred /\ t.coders.given /\ Legible(e, t) # {}
        /\ t.coders.list \cap (TeamsCodecs \cup {"AMR-WB"}) = {} => "E.CODEC.NO_TEAMS_OVERLAP" \in ids
  <2>1. "codecs" \in C /\ referred /\ t.coders.given /\ Legible(e, t) # {}
          => x.carried /\ x.codecs = Legible(e, t)
    BY <1>1, LegSays DEF x
  <2>2. Legible(e, t) \subseteq t.coders.list
    BY DEF Legible
  <2>. QED BY <1>1, <2>1, <2>2, LegReported DEF c
<1>9. e.format \in {"ini", "cube"} /\ t.coders.given /\ t.coders.list = {}
        => "E.CODEC.NONE_OFFERED" \in ids
  <2>1. e.format \in {"ini", "cube"} => x.carried = t.coders.given /\ x.codecs = t.coders.list
    BY <1>1, LegSays DEF x
  <2>. QED BY <1>1, <2>1, LegReported DEF c
<1>10. "dtmf" \in C /\ t.dtmf = "inband" => "E.DTMF.INBAND_TEAMS" \in ids
  <2>1. "dtmf" \in C => x.dtmf = t.dtmf
    BY <1>1, LegSays DEF x
  <2>. QED BY <1>1, <2>1, LegReported DEF c
<1>. SUFFICES ASSUME NEW i \in DueOfLeg(e, t) PROVE i \in ids
  OBVIOUS
<1>11. \/ Transport(t) \in {"tcp", "udp"} /\ i = "B.SIP.TRANSPORT"
       \/ Unpinged(e, t) /\ reached /\ i = "B.SIP.OPTIONS_KEEPALIVE"
       \/ "interval" \in C /\ reached /\ ~IntervalOk(t.interval) /\ i = "B.SIP.OPTIONS_INTERVAL"
       \/ "contact" \in C /\ e.fqdn # "none" /\ t.contact = "outside" /\ i = "B.SIP.CONTACT_FQDN"
       \/ /\ "codecs" \in C /\ referred /\ t.coders.given /\ Legible(e, t) # {}
          /\ t.coders.list \cap (TeamsCodecs \cup {"AMR-WB"}) = {} /\ i = "E.CODEC.NO_TEAMS_OVERLAP"
       \/ /\ e.format \in {"ini", "cube"} /\ t.coders.given /\ t.coders.list = {}
          /\ i = "E.CODEC.NONE_OFFERED"
       \/ "dtmf" \in C /\ t.dtmf = "inband" /\ i = "E.DTMF.INBAND_TEAMS"
  <2>1. DueOfLeg(e, t) =
          Due(Transport(t) \in {"tcp", "udp"}, "B.SIP.TRANSPORT")
          \cup Due(Unpinged(e, t) /\ reached, "B.SIP.OPTIONS_KEEPALIVE")
          \cup Due("interval" \in C /\ reached /\ ~IntervalOk(t.interval), "B.SIP.OPTIONS_INTERVAL")
          \cup Due("contact" \in C /\ e.fqdn # "none" /\ t.contact = "outside", "B.SIP.CONTACT_FQDN")
          \cup Due("codecs" \in C /\ referred /\ t.coders.given /\ Legible(e, t) # {}
                     /\ t.coders.list \cap (TeamsCodecs \cup {"AMR-WB"}) = {},
                   "E.CODEC.NO_TEAMS_OVERLAP")
          \cup Due(e.format \in {"ini", "cube"} /\ t.coders.given /\ t.coders.list = {},
                   "E.CODEC.NONE_OFFERED")
          \cup Due("dtmf" \in C /\ t.dtmf = "inband", "E.DTMF.INBAND_TEAMS")
    BY DEF DueOfLeg
  <2>. HIDE DEF C, reached, referred
  <2>. QED BY <2>1 DEF Due
<1>. QED BY <1>4, <1>5, <1>6, <1>7, <1>8, <1>9, <1>10, <1>11

LEMMA TlsFaultsFound ==
  ASSUME NEW e \in Export, HasTeamsLeg(e), NEW t, t = TeamsLeg(e), Transport(t) = "tls",
         e.format = "ini" => t.bound, NEW ids, ids = Ids(AllFindings(ParseExport(e)))
  PROVE  DueOfTls(e, t) \subseteq ids
<1>. DEFINE c == ParseExport(e)
            y == ParseLeg(e, t)
            x == y.tls
            C == Profiled(e)
            referred == Referred(e, t)
<1>1. t \in Leg /\ t.hub /\ HasTeams(c) /\ Teams(c) = y
  BY TeamsLegIsTeams
<1>2. x # NoContext
  BY <1>1, ContextsAre
<1>3. Stated(e) => c.fqdn = e.fqdn
  BY CarriesAre DEF ParseExport, Stated, Carries
<1>4. /\ C \subseteq Carries[e.format] /\ ("srtp" \in C <=> "srtp" \in Carries[e.format])
  BY DEF Profiled
<1>5. ids = Ids(AllFindings(c))
  OBVIOUS
<1>. HIDE DEF c, y, x
<1>6. "srtp" \in C /\ referred /\ t.srtp = "off" => "C.SRTP.DISABLED" \in ids
  <2>1. "srtp" \in C /\ referred /\ t.srtp = "off" => y.srtp = "off"
    BY <1>1, <1>4, LegSays DEF y
  <2>. QED BY <1>1, <1>2, <1>5, <2>1, TlsReported DEF x
<1>7. "mtls" \in C /\ e.mtls = "off" => "C.TLS.MTLS_DISABLED" \in ids
  <2>1. "mtls" \in C /\ e.mtls = "off" => x.mtls = "off"
    BY <1>1, TlsSays DEF x, y
  <2>. QED BY <1>1, <1>2, <1>5, <2>1, TlsReported DEF x
<1>8. "minTls" \in C /\ e.minTls \in {"1.0", "1.1"} => "C.TLS.WEAK_VERSION" \in ids
  <2>1. "minTls" \in C => x.minTls = e.minTls
    BY <1>1, TlsSays DEF x, y
  <2>. QED BY <1>1, <1>2, <1>5, <2>1, TlsReported DEF x
<1>9. "ciphers" \in C /\ e.ciphers = "foreign" => "C.TLS.CIPHER_NOT_ALLOWED" \in ids
  <2>1. "ciphers" \in C => x.ciphers = e.ciphers
    BY <1>1, TlsSays DEF x, y
  <2>. QED BY <1>1, <1>2, <1>5, <2>1, TlsReported DEF x
<1>10. "roots" \in C /\ ~(RequiredRoots \subseteq e.roots) => "C.CA.ROOT_MISSING" \in ids
  <2>1. "roots" \in C => x.roots = e.roots /\ x.introspectable
    BY <1>1, TlsSays DEF x, y
  <2>2. ~(RequiredRoots \subseteq e.roots) => RequiredRoots \ e.roots # {}
    OBVIOUS
  <2>. QED BY <1>1, <1>2, <1>5, <2>1, <2>2, TlsReported DEF x
<1>11. Seen(e) => /\ x.cert # NoCert /\ x.cert.pem = "read" /\ x.cert.ekus = e.leaf.ekus
                  /\ x.cert.expiry = e.leaf.expiry /\ x.cert.chain = e.chain
  BY <1>1, TlsSays DEF x, y
<1>12. Seen(e) /\ "server" \notin e.leaf.ekus => "C.CERT.EKU_NO_SERVERAUTH" \in ids
  BY <1>1, <1>2, <1>5, <1>11, LeafReported DEF x
<1>13. Seen(e) /\ e.leaf.expiry \in {"past", "soon"} => "C.CERT.EXPIRY" \in ids
  BY <1>1, <1>2, <1>5, <1>11, LeafReported DEF x
<1>14. Seen(e) /\ e.chain = "selfSigned" => "C.CERT.SELF_SIGNED" \in ids
  BY <1>1, <1>2, <1>5, <1>11, LeafReported DEF x
<1>15. Stated(e) /\ e.fqdn # "none" /\ ~e.listed.covers => "C.CERT.FQDN_MISMATCH" \in ids
  <2>1. Stated(e) => x.cert # NoCert /\ x.cert.covers = e.listed.covers
    BY <1>1, TlsSays DEF x, y
  <2>. QED BY <1>1, <1>2, <1>3, <1>5, <2>1, LeafReported DEF x
<1>. SUFFICES ASSUME NEW i \in DueOfTls(e, t) PROVE i \in ids
  OBVIOUS
<1>16. "listed" \in C <=> "listed" \in Carries[e.format]
  BY DEF Profiled
<1>17. "pem" \in C <=> "pem" \in Carries[e.format]
  BY DEF Profiled
<1>18. \/ "srtp" \in C /\ referred /\ t.srtp = "off" /\ i = "C.SRTP.DISABLED"
       \/ "mtls" \in C /\ e.mtls = "off" /\ i = "C.TLS.MTLS_DISABLED"
       \/ "minTls" \in C /\ e.minTls \in {"1.0", "1.1"} /\ i = "C.TLS.WEAK_VERSION"
       \/ "ciphers" \in C /\ e.ciphers = "foreign" /\ i = "C.TLS.CIPHER_NOT_ALLOWED"
       \/ "roots" \in C /\ ~(RequiredRoots \subseteq e.roots) /\ i = "C.CA.ROOT_MISSING"
       \/ Seen(e) /\ "server" \notin e.leaf.ekus /\ i = "C.CERT.EKU_NO_SERVERAUTH"
       \/ Seen(e) /\ e.leaf.expiry \in {"past", "soon"} /\ i = "C.CERT.EXPIRY"
       \/ Seen(e) /\ e.chain = "selfSigned" /\ i = "C.CERT.SELF_SIGNED"
       \/ Stated(e) /\ e.fqdn # "none" /\ ~e.listed.covers /\ i = "C.CERT.FQDN_MISMATCH"
  <2>. HIDE DEF C
  <2>. DEFINE seen == "pem" \in C /\ e.pem = "read" /\ (e.format = "cube" => e.named)
              stated == "listed" \in C /\ e.named /\ e.pem = "none"
  <2>1. seen <=> Seen(e)
    BY <1>17 DEF Seen
  <2>2. stated <=> Stated(e)
    BY <1>16 DEF Stated
  <2>. HIDE DEF seen, stated
  <2>3. DueOfTls(e, t) =
          Due("srtp" \in C /\ referred /\ t.srtp = "off", "C.SRTP.DISABLED")
          \cup Due("mtls" \in C /\ e.mtls = "off", "C.TLS.MTLS_DISABLED")
          \cup Due("minTls" \in C /\ e.minTls \in {"1.0", "1.1"}, "C.TLS.WEAK_VERSION")
          \cup Due("ciphers" \in C /\ e.ciphers = "foreign", "C.TLS.CIPHER_NOT_ALLOWED")
          \cup Due("roots" \in C /\ ~(RequiredRoots \subseteq e.roots), "C.CA.ROOT_MISSING")
          \cup Due(seen /\ "server" \notin e.leaf.ekus, "C.CERT.EKU_NO_SERVERAUTH")
          \cup Due(seen /\ e.leaf.expiry \in {"past", "soon"}, "C.CERT.EXPIRY")
          \cup Due(seen /\ e.chain = "selfSigned", "C.CERT.SELF_SIGNED")
          \cup Due("listed" \in C /\ e.named /\ e.pem = "none" /\ e.fqdn # "none"
                     /\ ~e.listed.covers, "C.CERT.FQDN_MISMATCH")
    BY DEF DueOfTls, seen, C, Profiled
  <2>. QED BY <2>1, <2>2, <2>3 DEF stated, Due
<1>. QED BY <1>6, <1>7, <1>8, <1>9, <1>10, <1>12, <1>13, <1>14, <1>15, <1>18

LEMMA RestFaultsFound ==
  ASSUME NEW e \in Export, HasTeamsLeg(e), NEW ids, ids = Ids(AllFindings(ParseExport(e)))
  PROVE  DueOfRest(e) \subseteq ids
<1>. DEFINE c == ParseExport(e)
            t == TeamsLeg(e)
            C == Carries[e.format]
<1>1. t \in Leg /\ t.hub /\ HasTeams(c) /\ Teams(c) = ParseLeg(e, t)
      /\ \E i \in DOMAIN e.legs : t = e.legs[i]
  BY TeamsLegIsTeams
<1>2. /\ c.realms = ParseRealms(e) /\ c.classified = ParseClassified(e)
      /\ c.fqdn = (IF e.format = "perimeta" THEN "none" ELSE e.fqdn)
      /\ c.ios = (IF e.format = "cube" THEN e.ios ELSE "?")
  BY DEF ParseExport
<1>3. ids = Ids(AllFindings(c))
  OBVIOUS
<1>. HIDE DEF c, t
<1>4. "fqdn" \in C /\ e.fqdn \in {"malformed", "ip"} => "A.SYN.FQDN_FORMAT" \in ids
  <2>1. "fqdn" \in C => e.format # "perimeta"
    BY CarriesAre DEF Carries
  <2>. QED BY <1>2, <1>3, <2>1, RestReported
<1>5. \A a, b, s : Realm(a, b, s) = <<[role |-> "unknown", advertised |-> a, local |-> b,
                                       symmetric |-> s]>>
  BY DEF Realm
<1>6. "address" \in C /\ "nat" \notin C => e.format \in {"ini", "cube", "ribbon"}
  BY WhoCarries DEF Export
<1>7. ASSUME e.format \in {"ini", "cube", "ribbon"}, e.realm, e.address # "?"
      PROVE  /\ e.address = "private4" => "D.NAT.PRIVATE_ADVERTISED" \in ids
             /\ e.symmetric = "off" => "D.NAT.NO_SYMMETRIC_RTP" \in ids
  <2>1. PICK b, s : /\ ParseRealms(e) = Realm(e.address, b, s)
                    /\ e.symmetric = "off" => s = "off"
    <3>1. OffUnlessOn("off") = "off" /\ OnUnlessOff("off") = "off"
      BY DEF OffUnlessOn, OnUnlessOff
    <3>2. CASE e.format = "ini"
      BY <1>7, <3>1, <3>2 DEF ParseRealms
    <3>3. CASE e.format # "ini"
      <4>1. ParseRealms(e) = Realm(e.address, "?", OnUnlessOff(e.symmetric))
        BY <1>7, <3>3 DEF ParseRealms
      <4>. QED BY <3>1, <4>1
    <3>. QED BY <3>2, <3>3
  <2>. DEFINE r == [role |-> "unknown", advertised |-> e.address, local |-> b, symmetric |-> s]
  <2>2. c.realms = <<r>> /\ r.role = "unknown" /\ r.advertised = e.address /\ r.symmetric = s
    BY <1>2, <1>5, <2>1
  <2>. HIDE DEF r
  <2>3. /\ r.advertised = "private4" => "D.NAT.PRIVATE_ADVERTISED" \in ids
        /\ r.symmetric = "off" => "D.NAT.NO_SYMMETRIC_RTP" \in ids
    BY <1>3, <2>2, RestReported
  <2>. QED BY <2>1, <2>2, <2>3
<1>8. "nat" \in C /\ e.realm /\ ~Public(e.address) /\ ~Public(e.nat) => "D.NAT.NO_PUBLIC_IP" \in ids
  <2>. SUFFICES ASSUME "nat" \in C, e.realm, ~Public(e.address), ~Public(e.nat)
                PROVE  "D.NAT.NO_PUBLIC_IP" \in ids
    OBVIOUS
  <2>1. e.format = "table"
    BY WhoCarries DEF Export
  <2>2. ParseRealms(e) = Realm("?", "?", "on")
    BY <2>1 DEF ParseRealms, TableAddress
  <2>. DEFINE r == [role |-> "unknown", advertised |-> "?", local |-> "?", symmetric |-> "on"]
  <2>3. c.realms = <<r>> /\ r.role = "unknown" /\ r.advertised = "?" /\ r.local = "?"
    BY <1>2, <1>5, <2>2
  <2>. HIDE DEF r
  <2>. QED BY <1>3, <2>3, RestReported
<1>9. "symmetric" \in C => e.format \in {"ini", "cube", "ribbon"}
  BY WhoCarries DEF Export
<1>10. "classified" \in C /\ ~e.classified => "G.CLASS.UNCLASSIFIED" \in ids
  <2>. SUFFICES ASSUME "classified" \in C, ~e.classified PROVE "G.CLASS.UNCLASSIFIED" \in ids
    OBVIOUS
  <2>1. e.format = "table"
    BY WhoCarries DEF Export
  <2>2. HubLegs(e) # {}
    BY <1>1 DEF HubLegs
  <2>3. c.classified = "off"
    BY <1>2, <2>1, <2>2 DEF ParseClassified, Tabled
  <2>. QED BY <1>1, <1>3, <2>3, LegReported
<1>11. "ios" \in C /\ e.ios \in {"old", "oldIsr4k"} /\ Transport(t) = "tls"
         => "C.PLATFORM.IOSXE_EKU_FLOOR" \in ids
  <2>. SUFFICES ASSUME "ios" \in C, e.ios \in {"old", "oldIsr4k"}, Transport(t) = "tls"
                PROVE  "C.PLATFORM.IOSXE_EKU_FLOOR" \in ids
    OBVIOUS
  <2>1. e.format = "cube"
    <3>1. e.format \in Formats
      BY DEF Export
    <3>. QED BY <3>1, OnlyCubeHasIos
  <2>2. ParseLeg(e, t).tls # NoContext
    BY <1>1, <2>1, ContextsAre
  <2>3. c.ios \in {"old", "oldIsr4k"}
    BY <1>2, <2>1
  <2>. QED BY <1>1, <1>3, <2>2, <2>3, TlsReported
<1>. SUFFICES ASSUME NEW i \in DueOfRest(e) PROVE i \in ids
  OBVIOUS
<1>12. \/ "fqdn" \in C /\ e.fqdn \in {"malformed", "ip"} /\ i = "A.SYN.FQDN_FORMAT"
       \/ /\ "address" \in C /\ "nat" \notin C /\ e.realm /\ e.address = "private4"
          /\ i = "D.NAT.PRIVATE_ADVERTISED"
       \/ /\ "nat" \in C /\ e.realm /\ ~Public(e.address) /\ ~Public(e.nat)
          /\ i = "D.NAT.NO_PUBLIC_IP"
       \/ /\ "symmetric" \in C /\ e.realm /\ e.address # "?" /\ e.symmetric = "off"
          /\ i = "D.NAT.NO_SYMMETRIC_RTP"
       \/ "classified" \in C /\ ~e.classified /\ i = "G.CLASS.UNCLASSIFIED"
       \/ /\ "ios" \in C /\ e.ios \in {"old", "oldIsr4k"} /\ Transport(t) = "tls"
          /\ i = "C.PLATFORM.IOSXE_EKU_FLOOR"
  <2>1. DueOfRest(e) =
          Due("fqdn" \in C /\ e.fqdn \in {"malformed", "ip"}, "A.SYN.FQDN_FORMAT")
          \cup Due("address" \in C /\ "nat" \notin C /\ e.realm /\ e.address = "private4",
                   "D.NAT.PRIVATE_ADVERTISED")
          \cup Due("nat" \in C /\ e.realm /\ ~Public(e.address) /\ ~Public(e.nat),
                   "D.NAT.NO_PUBLIC_IP")
          \cup Due("symmetric" \in C /\ e.realm /\ e.address # "?" /\ e.symmetric = "off",
                   "D.NAT.NO_SYMMETRIC_RTP")
          \cup Due("classified" \in C /\ ~e.classified, "G.CLASS.UNCLASSIFIED")
          \cup Due("ios" \in C /\ e.ios \in {"old", "oldIsr4k"} /\ Transport(t) = "tls",
                   "C.PLATFORM.IOSXE_EKU_FLOOR")
    BY DEF DueOfRest, t
  <2>. HIDE DEF C, t
  <2>. QED BY <2>1 DEF Due
<1>13. "private4" # "?"
  OBVIOUS
<1>. QED BY <1>4, <1>6, <1>7, <1>8, <1>9, <1>10, <1>11, <1>12, <1>13

\* Whatever an export shows to be wrong is found, in every format, and for any
\* number of legs: no parser loses it on the way to the validators.
THEOREM EveryShownFaultIsFound ==
  ASSUME NEW e \in Export
  PROVE  DueOf(e) \subseteq Ids(AllFindings(ParseExport(e)))
<1>. DEFINE ids == Ids(AllFindings(ParseExport(e)))
<1>1. CASE ~HasTeamsLeg(e)
  BY <1>1 DEF DueOf
<1>2. CASE HasTeamsLeg(e)
  <2>. DEFINE t == TeamsLeg(e)
  <2>1. DueOfRest(e) \subseteq ids /\ DueOfLeg(e, t) \subseteq ids
    BY <1>2, RestFaultsFound, LegFaultsFound
  <2>2. Transport(t) = "tls" /\ (e.format # "ini" \/ t.bound) => DueOfTls(e, t) \subseteq ids
    BY <1>2, TlsFaultsFound
  <2>3. DueOf(e) = DueOfRest(e) \cup DueOfLeg(e, t)
                   \cup IF Transport(t) = "tls" /\ (e.format # "ini" \/ t.bound)
                        THEN DueOfTls(e, t) ELSE {}
    BY <1>2 DEF DueOf
  <2>. HIDE DEF ids, t
  <2>. QED BY <2>1, <2>2, <2>3 DEF ids
<1>. QED BY <1>1, <1>2

\* What the run of the pipeline reports of a file is what its export shows.
THEOREM ShownFaultsFound == Spec => []ShownFaultsAreFound
<1>1. Faithful /\ ReadInv /\ IInv => ShownFaultsAreFound
  <2>. SUFFICES ASSUME Faithful, ReadInv, IInv, Judged
                PROVE  DueOf(Source(file)) \subseteq Ids(findings)
    BY DEF ShownFaultsAreFound
  <2>1. config = Parse(file) /\ config # Unparsable /\ findings = AllFindings(config) /\ file \in Files
    BY DEF Faithful, FindingsInv, ReadInv, Judged, IInv, TypeOK
  <2>2. Source(file) \in Export /\ config = ParseExport(Source(file))
    BY <2>1, SourceAssumption, ParserAssumption DEF DetectAndParse
  <2>. QED BY <2>1, <2>2, EveryShownFaultIsFound
<1>. QED BY <1>1, RunsFaithful, RunsTyped, EditsAreHistory, PTL
(* An export with nothing wrong in it passes. *)

\* What the parsers make of any leg.
LEMMA AnyLegParsed ==
  ASSUME NEW e \in Export, NEW l \in Leg, NEW x, x = ParseLeg(e, l)
  PROVE  /\ x.name = l.name /\ x.transport = Transport(l)
         /\ x.dtmf \in {l.dtmf, "?"} /\ x.interval \in {l.interval, -1} /\ x.contact \in {l.contact, "?"}
         /\ e.format # "oracle" => x.normalized = l.normalized
         /\ x.carried /\ x.codecs # {} => l.coders.list # {} /\ l.coders.given /\ x.codecs = Legible(e, l)
         /\ x.carried /\ x.codecs = {} => l.coders.given /\ l.coders.list = {}
<1>8. /\ Legible(e, l) = IF e.format \in {"table", "oracle"} THEN NamedCodersOf(l) ELSE l.coders.list
      /\ NamedCodersOf(l) # {} => l.coders.list # {}
  BY DEF Legible, NamedCodersOf
<1>1. CASE e.format = "ini"
  <2>1. x = IniLeg(e, l)
    BY <1>1, ParsersAre
  <2>. QED BY <1>1, <1>8, <2>1, IniParts
<1>2. CASE e.format = "table"
  <2>1. x = TableLeg(e, l)
    BY <1>2, ParsersAre
  <2>. QED BY <1>2, <1>8, <2>1, TableParts
<1>3. CASE e.format = "cube"
  <2>1. x = CubeLeg(e, l)
    BY <1>3, ParsersAre
  <2>. QED BY <1>3, <1>8, <2>1, CubeParts
<1>4. CASE e.format = "oracle"
  <2>1. x = OracleLeg(e, l)
    BY <1>4, ParsersAre
  <2>. QED BY <1>4, <1>8, <2>1, OracleParts
<1>5. CASE e.format = "ribbon"
  <2>1. x = RibbonLeg(e, l)
    BY <1>5, ParsersAre
  <2>. QED BY <1>5, <1>8, <2>1, RibbonParts
<1>6. CASE e.format = "perimeta"
  <2>1. x = PerimetaLeg(e, l)
    BY <1>6, ParsersAre
  <2>. QED BY <1>6, <1>8, <2>1, PerimetaParts
<1>7. e.format \in Formats
  BY DEF Export
<1>. QED BY <1>1, <1>2, <1>3, <1>4, <1>5, <1>6, <1>7 DEF Formats

LEMMA SoundLegParsed ==
  ASSUME NEW e \in Export, NEW t \in Leg, SoundLeg(e, t), NEW x, x = ParseLeg(e, t)
  PROVE  x.keepalive # "off" /\ x.srtp # "off"
<1>1. OffUnlessOn("on") = "on"
  BY DEF OffUnlessOn
<1>2. CASE e.format = "ini"
  <2>1. x = IniLeg(e, t) /\ ~Tabled(e)
    BY <1>2, ParsersAre DEF Tabled
  <2>2. "srtp" \in Carries[e.format]
    BY <1>2 DEF Carries
  <2>. QED BY <1>1, <1>2, <2>1, <2>2, IniParts DEF SoundLeg, Reached, Referred
<1>3. CASE e.format = "table"
  <2>1. x = TableLeg(e, t)
    BY <1>3, ParsersAre
  <2>2. "srtp" \in Carries[e.format]
    BY <1>3 DEF Carries
  <2>. QED BY <1>1, <1>3, <2>1, <2>2, TableParts DEF SoundLeg, Reached, Referred
<1>4. CASE e.format = "cube"
  <2>1. x = CubeLeg(e, t) /\ ~Tabled(e)
    BY <1>4, ParsersAre DEF Tabled
  <2>2. "srtp" \in Carries[e.format]
    BY <1>4 DEF Carries
  <2>. QED BY <1>1, <1>4, <2>1, <2>2, CubeParts DEF SoundLeg, Reached, Referred
<1>5. CASE e.format = "oracle"
  <2>1. x = OracleLeg(e, t) /\ ~Tabled(e)
    BY <1>5, ParsersAre DEF Tabled
  <2>2. "srtp" \in Carries[e.format]
    BY <1>5 DEF Carries
  <2>. QED BY <1>1, <1>5, <2>1, <2>2, OracleParts DEF SoundLeg, Reached, Referred
<1>6. CASE e.format = "ribbon"
  <2>1. x = RibbonLeg(e, t) /\ ~Tabled(e)
    BY <1>6, ParsersAre DEF Tabled
  <2>2. "srtp" \in Carries[e.format]
    BY <1>6 DEF Carries
  <2>. QED BY <1>1, <1>6, <2>1, <2>2, RibbonParts DEF SoundLeg, Reached, Referred
<1>7. CASE e.format = "perimeta"
  <2>1. x = PerimetaLeg(e, t)
    BY <1>7, ParsersAre
  <2>. QED BY <1>7, <2>1, PerimetaParts
<1>8. e.format \in Formats
  BY DEF Export
<1>. QED BY <1>2, <1>3, <1>4, <1>5, <1>6, <1>7, <1>8 DEF Formats

\* The certificate that a parser makes of a sound export.
GoodCert(k) == /\ "server" \in k.ekus /\ k.expiry \notin {"past", "soon"} /\ k.covers
               /\ k.pem \in {"none", "read"}
               /\ k.pem = "read" => k.chain \in RequiredRoots \ ChainFaults
               /\ k.pem = "none" => k.chainComplete # "off"

LEMMA GoodLeaf ==
  ASSUME NEW e, NEW d, NEW k, k = Leaf(e, d),
         \/ e.pem = "read" /\ SoundDetails(e.leaf) /\ e.chain \in RequiredRoots \ ChainFaults
         \/ e.pem = "none" /\ SoundDetails(d) /\ d.chainComplete = "on"
  PROVE  GoodCert(k)
<1>1. CASE e.pem = "read" /\ SoundDetails(e.leaf) /\ e.chain \in RequiredRoots \ ChainFaults
  BY <1>1, LeafParts DEF GoodCert, SoundDetails
<1>2. CASE e.pem = "none" /\ SoundDetails(d) /\ d.chainComplete = "on"
  <2>1. k.chainComplete = "on"
    BY <1>2 DEF Leaf
  <2>. QED BY <1>2, <2>1, LeafParts DEF GoodCert, SoundDetails
<1>. QED BY <1>1, <1>2

LEMMA GoodCerts ==
  ASSUME NEW e \in Export, SoundCert(e)
  PROVE  /\ e.format = "ini" => IniCert(e) # NoCert /\ GoodCert(IniCert(e))
         /\ e.format = "cube" => CubeCert(e) # NoCert /\ GoodCert(CubeCert(e))
         /\ e.format = "ribbon" => RibbonCert(e) # NoCert /\ GoodCert(RibbonCert(e))
         /\ e.format \in {"table", "oracle"} => /\ AnnotatedCert(e) # NoCert =>
                                                     GoodCert(AnnotatedCert(e)) /\ AnnotatedCert(e).pem = "read"
<1>1. \A d \in Details : Leaf(e, d) # NoCert
  BY LeafTyped, NoneAssumption
<1>2. e.listed \in Details
  BY DEF Export
<1>3. Blank \in Details
  BY DEF Blank, Details, Tri
<1>4. ASSUME e.format = "ini" PROVE IniCert(e) # NoCert /\ GoodCert(IniCert(e))
  <2>. DEFINE d == [e.listed EXCEPT !.chainComplete = OffUnlessOn(@)]
  <2>1. d \in Details
    BY <1>2 DEF Details, OffUnlessOn, Tri
  <2>2. IniCert(e) = Leaf(e, d)
    BY <1>4 DEF IniCert, SoundCert
  <2>3. SoundDetails(e.listed) /\ e.listed.chainComplete = "on" => SoundDetails(d) /\ d.chainComplete = "on"
    BY <1>2 DEF SoundDetails, Details, OffUnlessOn
  <2>. HIDE DEF d
  <2>4. \/ e.pem = "read" /\ SoundDetails(e.leaf) /\ e.chain \in RequiredRoots \ ChainFaults
        \/ e.pem = "none" /\ SoundDetails(d) /\ d.chainComplete = "on"
    BY <1>4, <2>3 DEF SoundCert
  <2>. QED BY <1>1, <2>1, <2>2, <2>4, GoodLeaf
<1>5. ASSUME e.format = "cube" PROVE CubeCert(e) # NoCert /\ GoodCert(CubeCert(e))
  <2>. DEFINE d == [Blank EXCEPT !.covers = e.listed.covers, !.chainComplete = "on"]
  <2>1. d \in Details
    BY <1>2, <1>3 DEF Details, Tri, Blank
  <2>2. /\ e.pem = "read" /\ SoundDetails(e.leaf) /\ e.chain \in RequiredRoots \ ChainFaults
        /\ e.named
    BY <1>5 DEF SoundCert
  <2>3. CubeCert(e) = Leaf(e, d)
    BY <2>2 DEF CubeCert
  <2>. HIDE DEF d
  <2>. QED BY <1>1, <2>1, <2>2, <2>3, GoodLeaf
<1>6. ASSUME e.format = "ribbon" PROVE RibbonCert(e) # NoCert /\ GoodCert(RibbonCert(e))
  <2>. DEFINE d == [Blank EXCEPT !.covers = TRUE]
  <2>1. d \in Details
    BY <1>3 DEF Details
  <2>2. e.pem = "read" /\ SoundDetails(e.leaf) /\ e.chain \in RequiredRoots \ ChainFaults
    BY <1>6 DEF SoundCert
  <2>3. RibbonCert(e) = Leaf(e, d)
    BY <2>2 DEF RibbonCert
  <2>. HIDE DEF d
  <2>. QED BY <1>1, <2>1, <2>2, <2>3, GoodLeaf
<1>7. ASSUME e.format \in {"table", "oracle"}, AnnotatedCert(e) # NoCert
      PROVE  GoodCert(AnnotatedCert(e)) /\ AnnotatedCert(e).pem = "read"
  <2>1. AnnotatedCert(e) = Leaf(e, Blank) /\ e.pem # "none"
    BY <1>7 DEF AnnotatedCert
  <2>2. e.pem = "read" /\ SoundDetails(e.leaf) /\ e.chain \in RequiredRoots \ ChainFaults
    BY <1>7, <2>1 DEF SoundCert
  <2>3. Leaf(e, Blank).pem = e.pem
    BY LeafParts
  <2>. QED BY <2>1, <2>2, <2>3, GoodLeaf
<1>. QED BY <1>4, <1>5, <1>6, <1>7

\* A context that nothing but advice is given of.
GoodContext(x) ==
  /\ x.mtls # "off" /\ x.minTls \notin {"1.0", "1.1"} /\ x.ciphers # "foreign"
  /\ x.introspectable => RequiredRoots \subseteq x.roots /\ x.cert # NoCert
  /\ ~x.introspectable => x.roots = {}
  /\ x.cert # NoCert => GoodCert(x.cert) /\ (~x.introspectable => x.cert.pem = "read")

LEMMA SoundContextParsed ==
  ASSUME NEW e \in Export, NEW t \in Leg, SoundTls(e, t), e.format = "ini" => t.bound,
         NEW x, x = ParseLeg(e, t).tls
  PROVE  x # NoContext /\ GoodContext(x)
<1>1. Transport(t) = "tls" /\ SoundCert(e) /\ e.minTls \notin {"1.0", "1.1"} /\ e.ciphers # "foreign"
  BY DEF SoundTls
<1>2. e.format \in {"ini", "cube", "ribbon"} => RequiredRoots \subseteq e.roots
  BY DEF SoundTls, Carries
<1>3. x # NoContext
  BY <1>1, ContextsAre
<1>4. OffUnlessOn("on") = "on"
  BY DEF OffUnlessOn
<1>5. CASE e.format = "ini"
  <2>1. x = Carried(e, OffUnlessOn(e.mtls), IniCert(e)) /\ e.mtls = "on"
    BY <1>1, <1>5, ContextsAre DEF SoundTls
  <2>. QED BY <1>1, <1>2, <1>3, <1>4, <1>5, <2>1, CarriedParts, GoodCerts DEF GoodContext
<1>6. CASE e.format = "cube"
  <2>1. x = Carried(e, "on", CubeCert(e))
    BY <1>1, <1>6, ContextsAre
  <2>. QED BY <1>1, <1>2, <1>3, <1>6, <2>1, CarriedParts, GoodCerts DEF GoodContext
<1>7. CASE e.format = "ribbon"
  <2>1. x = RibbonContext(e) /\ (e.profile => e.mtls = "on")
    BY <1>1, <1>7, ContextsAre DEF SoundTls
  <2>. QED BY <1>1, <1>2, <1>3, <1>4, <1>7, <2>1, RibbonContextParts, GoodCerts DEF GoodContext
<1>8. CASE e.format = "table"
  <2>1. x = Imported(e, "on", AnnotatedCert(e))
    BY <1>1, <1>8, ContextsAre
  <2>. QED BY <1>1, <1>3, <1>8, <2>1, ImportedParts, GoodCerts DEF GoodContext
<1>9. CASE e.format = "oracle"
  <2>1. x = Imported(e, "?", AnnotatedCert(e))
    BY <1>1, <1>9, ContextsAre
  <2>. QED BY <1>1, <1>3, <1>9, <2>1, ImportedParts, GoodCerts DEF GoodContext
<1>10. CASE e.format = "perimeta"
  <2>1. x = PerimetaContext(e)
    BY <1>1, <1>10, ContextsAre
  <2>. QED BY <1>3, <2>1, PerimetaContextParts DEF GoodContext
<1>. QED BY <1>5, <1>6, <1>7, <1>8, <1>9, <1>10 DEF Export, Formats
\* What is reported of a sound export: remarks, and the little that adds up.
Remarks == {"B.SIP.CARRIER_NO_KEEPALIVE", "C.SRTP.MEDIA_TRUST_UNVERIFIED", "C.CERT.DEEP_INSPECTED",
            "C.CERT.CHAIN_ANCHORED", "E.CODEC.AMRWB_NOT_OFFERED", "E.CODEC.WIDEBAND_DOWNGRADE"}
Remark(f)      == f.id \in Remarks /\ f.sev = "INFO"
Note(id, sev)  == [id |-> id, sev |-> sev, at |-> 0]
Advice         == {"C.CERT.EKU_DUALUSE", "C.CERT.ISSUER_PROGRAM_UNVERIFIED", "C.CERT.UNAVAILABLE",
                   "C.CA.TRUST_STORE_UNAVAILABLE"}

LEMMA WhenNote ==
  ASSUME NEW cond, NEW id, NEW sev, NEW f \in When(cond, id, sev)
  PROVE  cond /\ f = Note(id, sev) /\ f.id = id /\ f.sev = sev
BY InWhen DEF Note

LEMMA GoodLeafFindings ==
  ASSUME NEW k, GoodCert(k), NEW c, NEW r \in {{}, RequiredRoots}, NEW f \in LeafCert(k, c, r)
  PROVE  \/ Remark(f)
         \/ f = Note("C.CERT.EKU_DUALUSE", "LOW")
         \/ f = Note("C.CERT.ISSUER_PROGRAM_UNVERIFIED", "LOW") /\ k.pem = "none"
<1>1. CASE f \in Inspection(k)
  <2>1. ~(k.pem = "noCrypto")
    BY DEF GoodCert
  <2>. QED BY <1>1, <2>1 DEF Inspection, When, Each, Remark, Remarks
<1>2. CASE f \in Usage(k)
  BY <1>2 DEF Usage, GoodCert, When, Each, Note
<1>3. CASE f \in Expiry(k)
  BY <1>3 DEF Expiry, GoodCert, When, Each
<1>4. CASE f \in When(c.fqdn # "none" /\ ~k.covers, "C.CERT.FQDN_MISMATCH", "HIGH")
  <2>1. ~(c.fqdn # "none" /\ ~k.covers)
    BY DEF GoodCert
  <2>. QED BY <1>4, <2>1 DEF When
<1>5. CASE f \in When(k.issuer = "other" /\ k.pem = "none", "C.CERT.ISSUER_PROGRAM_UNVERIFIED", "LOW")
  BY <1>5 DEF When, Each, Note
<1>6. CASE k.pem = "read" /\ f \in Chain(k, r)
  <2>1. k.chain \in RequiredRoots /\ k.chain \notin ChainFaults
    BY <1>6 DEF GoodCert
  <2>2. /\ k.chain # "selfSigned" /\ k.chain # "badSignature" /\ k.chain # "noRoot"
        /\ ~(k.chain \notin ChainFaults /\ r # {} /\ k.chain \notin r)
    BY <2>1 DEF ChainFaults
  <2>3. f \in When(k.chain \notin ChainFaults /\ (r = {} \/ k.chain \in r), "C.CERT.CHAIN_ANCHORED", "INFO")
    BY <1>6, <2>2, WhenNote DEF Chain
  <2>. QED BY <2>3, WhenNote DEF Remark, Remarks
<1>7. CASE k.pem # "read" /\ f \in When(k.chainComplete = "off", "C.CERT.CHAIN_INCOMPLETE", "MEDIUM")
  BY <1>7 DEF GoodCert, When, Each
<1>. QED BY <1>1, <1>2, <1>3, <1>4, <1>5, <1>6, <1>7 DEF LeafCert

\* Of a good context at most two things are advised.
LEMMA GoodContextFindings ==
  ASSUME NEW c, c.ios \notin {"old", "oldIsr4k"}, NEW t, t.srtp # "off", NEW x, GoodContext(x)
  PROVE  \E a, b \in Advice : \A f \in Context(c, t, x) :
           Remark(f) \/ f \in {Note(a, "LOW"), Note(b, "LOW")}
<1>1. Demanded(x) \in {{}, RequiredRoots}
  BY DEF Demanded
<1>2. \A f \in When(x.mtls = "off", "C.TLS.MTLS_DISABLED", "HIGH") : FALSE
  BY DEF GoodContext, When, Each
<1>3. \A f \in MediaTrust(t, x) : Remark(f)
  <2>. DEFINE cond == t.srtp = "on" /\ (~x.introspectable \/ Missing(x) # {})
  <2>1. MediaTrust(t, x) = When(t.srtp = "off", "C.SRTP.DISABLED", "HIGH")
                           \cup When(cond, "C.SRTP.MEDIA_TRUST_UNVERIFIED", "INFO")
    BY DEF MediaTrust
  <2>. HIDE DEF cond
  <2>2. \A f \in MediaTrust(t, x) : f = Note("C.SRTP.MEDIA_TRUST_UNVERIFIED", "INFO")
    BY <2>1 DEF When, Each, Note
  <2>. QED BY <2>2 DEF Remark, Remarks, Note
<1>4. \A f \in TlsPolicy(x) : FALSE
  BY DEF TlsPolicy, GoodContext, When, Each
<1>5. \A f \in Platform(c) : FALSE
  BY DEF Platform, When, Each
<1>6. CASE x.introspectable
  <2>1. Missing(x) = {} /\ NotFound(x) = {} /\ ~Unavailable(x)
    BY <1>6 DEF Missing, NotFound, Demanded, Unavailable, GoodContext
  <2>2. \A f \in TrustStore(x) : FALSE
    BY <1>6, <2>1, WhenNote DEF TrustStore
  <2>3. x.cert # NoCert /\ GoodCert(x.cert)
    BY <1>6 DEF GoodContext
  <2>4. \A f \in LeafFindings(x, c, Demanded(x)) :
          Remark(f) \/ f \in {Note("C.CERT.EKU_DUALUSE", "LOW"),
                              Note("C.CERT.ISSUER_PROGRAM_UNVERIFIED", "LOW")}
    BY <1>1, <2>3, GoodLeafFindings DEF LeafFindings
  <2>5. \A f \in Context(c, t, x) :
          Remark(f) \/ f \in {Note("C.CERT.EKU_DUALUSE", "LOW"),
                              Note("C.CERT.ISSUER_PROGRAM_UNVERIFIED", "LOW")}
    BY <1>2, <1>3, <1>4, <1>5, <2>2, <2>4 DEF Context
  <2>6. "C.CERT.EKU_DUALUSE" \in Advice /\ "C.CERT.ISSUER_PROGRAM_UNVERIFIED" \in Advice
    BY DEF Advice
  <2>. QED BY <2>5, <2>6
<1>7. CASE ~x.introspectable
  <2>1. Missing(x) = {}
    BY <1>7 DEF Missing
  <2>2. \A f \in TrustStore(x) : f = Note("C.CA.TRUST_STORE_UNAVAILABLE", "LOW")
    BY <2>1 DEF TrustStore, When, Each, Note
  <2>3. "C.CA.TRUST_STORE_UNAVAILABLE" \in Advice /\ "C.CERT.UNAVAILABLE" \in Advice
          /\ "C.CERT.EKU_DUALUSE" \in Advice
    BY DEF Advice
  <2>4. CASE x.cert = NoCert
    <3>1. \A f \in LeafFindings(x, c, Demanded(x)) : f = Note("C.CERT.UNAVAILABLE", "LOW")
      BY <1>7, <2>4, WhenNote DEF LeafFindings
    <3>2. \A f \in Context(c, t, x) :
            Remark(f) \/ f \in {Note("C.CA.TRUST_STORE_UNAVAILABLE", "LOW"),
                                Note("C.CERT.UNAVAILABLE", "LOW")}
      BY <1>2, <1>3, <1>4, <1>5, <2>2, <3>1 DEF Context
    <3>. QED BY <2>3, <3>2
  <2>5. CASE x.cert # NoCert
    <3>1. GoodCert(x.cert) /\ x.cert.pem = "read"
      BY <1>7, <2>5 DEF GoodContext
    <3>2. \A f \in LeafFindings(x, c, Demanded(x)) : Remark(f) \/ f = Note("C.CERT.EKU_DUALUSE", "LOW")
      BY <1>1, <2>5, <3>1, GoodLeafFindings DEF LeafFindings
    <3>3. \A f \in Context(c, t, x) :
            Remark(f) \/ f \in {Note("C.CA.TRUST_STORE_UNAVAILABLE", "LOW"),
                                Note("C.CERT.EKU_DUALUSE", "LOW")}
      BY <1>2, <1>3, <1>4, <1>5, <2>2, <3>2 DEF Context
    <3>. QED BY <2>3, <3>3
  <2>. QED BY <2>4, <2>5
<1>. QED BY <1>6, <1>7

\* A sound export as a configuration.
SoundFaces(c, t) ==
  /\ HasTeams(c) /\ t = Teams(c) /\ DOMAIN c.ifaces # {}
  /\ t.transport = "tls" /\ t.keepalive # "off" /\ t.srtp # "off" /\ IntervalOk(t.interval)
  /\ t.contact # "outside" /\ t.dtmf # "inband"
  /\ t.carried => t.codecs # {} /\ t.codecs \cap (TeamsCodecs \cup {"AMR-WB"}) # {}
  /\ t.tls # NoContext /\ GoodContext(t.tls)
  /\ \A i, j \in DOMAIN c.ifaces : c.ifaces[i].name = c.ifaces[j].name => i = j
  /\ \A i \in DOMAIN c.ifaces : /\ c.ifaces[i].transport = "tls" => c.ifaces[i].tls # NoContext
                                /\ c.ifaces[i].dtmf \in {"?", "rfc2833"}
  /\ Common(c) # {}

LEMMA SoundFacesParsed ==
  ASSUME NEW e \in Export, Sound(e), NEW c, c = ParseExport(e)
  PROVE  /\ SoundFaces(c, ParseLeg(e, TeamsLeg(e)))
         /\ e.format # "oracle" => \E i \in DOMAIN c.ifaces : c.ifaces[i].normalized
<1>. DEFINE t == TeamsLeg(e)
            y == ParseLeg(e, t)
<1>1. /\ HasTeams(c) /\ Teams(c) = y /\ t \in Leg /\ t.hub /\ \E i \in DOMAIN e.legs : t = e.legs[i]
  BY TeamsLegIsTeams DEF Sound
<1>2. /\ DOMAIN c.ifaces = DOMAIN e.legs /\ \A i \in DOMAIN e.legs : c.ifaces[i] = ParseLeg(e, e.legs[i])
  BY DEF ParseExport
<1>3. \A i \in DOMAIN e.legs : e.legs[i] \in Leg
  BY DEF Export
<1>4. SoundLeg(e, t) /\ SoundTls(e, t) /\ SoundLegs(e)
  BY DEF Sound
<1>5. e.format = "ini" => t.bound
  BY <1>1, <1>4 DEF SoundLegs, SoundTls
<1>. HIDE DEF t
<1>6. y.keepalive # "off" /\ y.srtp # "off"
  BY <1>1, <1>4, SoundLegParsed
<1>7. y.tls # NoContext /\ GoodContext(y.tls)
  BY <1>1, <1>4, <1>5, SoundContextParsed
<1>8. /\ y.transport = Transport(t) /\ y.dtmf \in {t.dtmf, "?"} /\ y.interval \in {t.interval, -1}
      /\ y.contact \in {t.contact, "?"}
      /\ y.carried /\ y.codecs # {} => t.coders.given /\ y.codecs = Legible(e, t)
      /\ y.carried /\ y.codecs = {} => t.coders.given /\ t.coders.list = {}
  BY <1>1, AnyLegParsed
<1>. HIDE DEF y
<1>9. /\ y.transport = "tls" /\ IntervalOk(y.interval) /\ y.contact # "outside"
      /\ y.carried => y.codecs # {} /\ y.codecs \cap (TeamsCodecs \cup {"AMR-WB"}) # {}
  <2>1. Transport(t) = "tls"
    BY <1>4 DEF SoundTls
  <2>2. /\ IntervalOk(t.interval) /\ t.contact # "outside"
        /\ t.coders.given => Legible(e, t) \cap (TeamsCodecs \cup {"AMR-WB"}) # {}
    BY <1>4 DEF SoundLeg
  <2>4. t.coders.list = {} => Legible(e, t) = {}
    BY DEF Legible
  <2>3. IntervalOk(-1)
    BY DEF IntervalOk
  <2>. QED BY <1>8, <2>1, <2>2, <2>3, <2>4
<1>10. \A i \in DOMAIN e.legs : e.legs[i].dtmf \in {"?", "rfc2833"}
  BY <1>4 DEF SoundLegs
<1>11. y.dtmf # "inband"
  BY <1>1, <1>8, <1>10
<1>12. \A i \in DOMAIN e.legs :
         /\ c.ifaces[i].name = e.legs[i].name /\ c.ifaces[i].transport = Transport(e.legs[i])
         /\ c.ifaces[i].dtmf \in {e.legs[i].dtmf, "?"}
         /\ e.format # "oracle" => c.ifaces[i].normalized = e.legs[i].normalized
         /\ c.ifaces[i].carried /\ c.ifaces[i].codecs # {}
              => /\ e.legs[i].coders.given /\ e.legs[i].coders.list # {}
                 /\ c.ifaces[i].codecs = Legible(e, e.legs[i])
  BY <1>2, <1>3, AnyLegParsed
<1>13. \A i, j \in DOMAIN c.ifaces : c.ifaces[i].name = c.ifaces[j].name => i = j
  BY <1>2, <1>4, <1>12 DEF SoundLegs
<1>14. ASSUME NEW i \in DOMAIN c.ifaces, c.ifaces[i].transport = "tls"
       PROVE  c.ifaces[i].tls # NoContext
  <2>1. Transport(e.legs[i]) = "tls"
    BY <1>2, <1>12, <1>14
  <2>2. e.format = "ini" => e.legs[i].bound
    BY <1>2, <1>4, <2>1 DEF SoundLegs
  <2>. QED BY <1>2, <1>3, <2>1, <2>2, ContextsAre
<1>15. Common(c) # {}
  <2>1. PICK k \in Codecs : \A i \in DOMAIN e.legs :
          e.legs[i].coders.given /\ e.legs[i].coders.list # {} => k \in Legible(e, e.legs[i])
    BY <1>4 DEF SoundLegs
  <2>2. \A i \in Legs(c) : k \in c.ifaces[i].codecs
    BY <1>2, <1>12, <2>1 DEF Legs
  <2>. QED BY <2>2 DEF Common
<1>16. \A i \in DOMAIN c.ifaces : c.ifaces[i].dtmf \in {"?", "rfc2833"}
  BY <1>2, <1>10, <1>12
<1>17. e.format # "oracle" => \E i \in DOMAIN c.ifaces : c.ifaces[i].normalized
  BY <1>2, <1>4, <1>12 DEF SoundLegs
<1>18. SoundFaces(c, y)
  BY <1>1, <1>2, <1>6, <1>7, <1>9, <1>11, <1>13, <1>14, <1>15, <1>16 DEF SoundFaces
<1>. QED BY <1>17, <1>18 DEF y, t
\* Three findings of MEDIUM that a format cannot help.
NoFqdn  == Note("A.SEM.MISSING_FQDN", "MEDIUM")
NoRules == Note("B.SIP.NO_NORMALIZATION", "MEDIUM")
NoRealm == Note("D.MEDIA.NO_REALM", "MEDIUM")

LEMMA SoundSyntax ==
  ASSUME NEW c, NEW t, SoundFaces(c, t), c.fqdn \in {"none", "name"}, NEW f \in SyntaxSemantic(c)
  PROVE  f = NoFqdn /\ c.fqdn = "none"
<1>. DEFINE faces == DOMAIN c.ifaces
            twice == {c.ifaces[i].name : i \in {j \in faces : \E k \in faces \ {j} :
                        c.ifaces[k].name = c.ifaces[j].name}}
            dangling == {i \in faces : c.ifaces[i].transport = "tls" /\ c.ifaces[i].tls = NoContext}
<1>1. twice = {} /\ dangling = {} /\ faces # {}
  BY DEF SoundFaces
<1>2. SyntaxSemantic(c) = When(faces = {}, "A.STRUCT.NO_SIP_INTERFACES", "HIGH")
        \cup When(c.fqdn = "none", "A.SEM.MISSING_FQDN", "MEDIUM")
        \cup When(c.fqdn \in {"malformed", "ip"}, "A.SYN.FQDN_FORMAT", "MEDIUM")
        \cup Each(twice, "A.SEM.DUP_INTERFACE", "MEDIUM")
        \cup Each(dangling, "A.SEM.DANGLING_TLS", "HIGH")
  BY DEF SyntaxSemantic
<1>. HIDE DEF twice, dangling, faces
<1>3. f \in When(c.fqdn = "none", "A.SEM.MISSING_FQDN", "MEDIUM")
  BY <1>1, <1>2 DEF When, Each
<1>. QED BY <1>3 DEF When, Each, NoFqdn, Note

LEMMA SoundInterop ==
  ASSUME NEW c, NEW t, SoundFaces(c, t), c.fqdn # "ip", NEW f \in Interop(c)
  PROVE  Remark(f) \/ (f = NoRules /\ \A i \in DOMAIN c.ifaces : ~c.ifaces[i].normalized)
<1>. DEFINE lax == HasCarrier(c) /\ Carrier(c).keepalive = "off"
            bare == \A i \in DOMAIN c.ifaces : ~c.ifaces[i].normalized
<1>1. /\ t.transport = "tls" /\ t.keepalive # "off" /\ IntervalOk(t.interval)
      /\ t.contact # "outside" /\ t = Teams(c) /\ HasTeams(c)
  BY DEF SoundFaces
<1>2. Interop(c) = When(c.fqdn = "ip", "B.SIP.IDENTITY_IS_IP", "HIGH") \cup TeamsInterop(c, t)
  BY <1>1 DEF Interop
<1>3. TeamsInterop(c, t) =
        When(t.transport # "tls", "B.SIP.TRANSPORT", "HIGH")
        \cup When(t.keepalive = "off", "B.SIP.OPTIONS_KEEPALIVE", "MEDIUM")
        \cup When(~IntervalOk(t.interval), "B.SIP.OPTIONS_INTERVAL", "MEDIUM")
        \cup When(t.contact = "outside" /\ c.fqdn # "none", "B.SIP.CONTACT_FQDN", "HIGH")
        \cup When(lax, "B.SIP.CARRIER_NO_KEEPALIVE", "INFO")
        \cup When(Bridging(c) /\ bare, "B.SIP.NO_NORMALIZATION", "MEDIUM")
  BY DEF TeamsInterop, RequiredTransport
<1>. HIDE DEF lax, bare
<1>4. \/ f \in When(lax, "B.SIP.CARRIER_NO_KEEPALIVE", "INFO")
      \/ f \in When(Bridging(c) /\ bare, "B.SIP.NO_NORMALIZATION", "MEDIUM")
  BY <1>1, <1>2, <1>3 DEF When, Each
<1>5. CASE f \in When(lax, "B.SIP.CARRIER_NO_KEEPALIVE", "INFO")
  BY <1>5 DEF When, Each, Remark, Remarks
<1>6. CASE f \in When(Bridging(c) /\ bare, "B.SIP.NO_NORMALIZATION", "MEDIUM")
  <2>1. bare /\ f = NoRules
    BY <1>6 DEF When, Each, Note, NoRules
  <2>. QED BY <2>1 DEF bare
<1>. QED BY <1>4, <1>5, <1>6

LEMMA SoundCodec ==
  ASSUME NEW c, NEW t, SoundFaces(c, t), NEW f \in Codec(c)
  PROVE  Remark(f)
<1>1. /\ HasTeams(c) /\ t = Teams(c) /\ t.dtmf # "inband" /\ Common(c) # {}
      /\ t.carried => t.codecs # {} /\ t.codecs \cap (TeamsCodecs \cup {"AMR-WB"}) # {}
  BY DEF SoundFaces
<1>2. Methods(c) \subseteq {"rfc2833"}
  BY DEF SoundFaces, Methods
<1>3. Cardinality(Methods(c)) <= 1 /\ (Methods(c) # {} => "rfc2833" \in Methods(c))
  <2>1. Methods(c) = {} \/ Methods(c) = {"rfc2833"}
    BY <1>2
  <2>. QED BY <2>1, FS_EmptySet, FS_Singleton
<1>. DEFINE narrow == Cardinality(Legs(c)) >= 2 /\ Common(c) # {} /\ Common(c) \cap Wideband = {}
                        /\ Offered(c) \cap Wideband # {}
            many == Cardinality(Methods(c)) > 1
            poor == Methods(c) # {} /\ "rfc2833" \notin Methods(c)
            apart == Cardinality(Legs(c)) >= 2 /\ Common(c) = {}
            plain == CarriesCodecs(t) /\ t.codecs # {} /\ "AMR-WB" \notin t.codecs
            none == CarriesCodecs(t) /\ t.codecs = {}
            foreign == CarriesCodecs(t) /\ t.codecs # {}
                         /\ t.codecs \cap (TeamsCodecs \cup {"AMR-WB"}) = {}
<1>4. ~many
  <2>1. Methods(c) = {} \/ Methods(c) = {"rfc2833"}
    BY <1>2
  <2>2. Cardinality(Methods(c)) \in {0, 1}
    BY <2>1, FS_EmptySet, FS_Singleton
  <2>. QED BY <2>2
<1>5. ~poor /\ ~apart /\ ~none /\ ~foreign
  BY <1>1, <1>3 DEF CarriesCodecs
<1>6. Codec(c) =
        (When(none, "E.CODEC.NONE_OFFERED", "HIGH")
         \cup When(foreign, "E.CODEC.NO_TEAMS_OVERLAP", "HIGH")
         \cup When(plain, "E.CODEC.AMRWB_NOT_OFFERED", "INFO")
         \cup When(t.dtmf = "inband", "E.DTMF.INBAND_TEAMS", "MEDIUM"))
        \cup When(apart, "E.CODEC.NO_CROSS_OVERLAP", "MEDIUM")
        \cup When(narrow, "E.CODEC.WIDEBAND_DOWNGRADE", "INFO")
        \cup When(poor, "E.DTMF.METHOD", "LOW")
        \cup When(many, "E.DTMF.INCONSISTENT", "MEDIUM")
  BY <1>1 DEF Codec, TeamsCodec
<1>. HIDE DEF narrow, many, poor, apart, plain, none, foreign
<1>7. \/ f \in When(plain, "E.CODEC.AMRWB_NOT_OFFERED", "INFO")
      \/ f \in When(narrow, "E.CODEC.WIDEBAND_DOWNGRADE", "INFO")
  BY <1>1, <1>4, <1>5, <1>6 DEF When, Each
<1>. QED BY <1>7 DEF When, Each, Remark, Remarks

LEMMA SoundMedia ==
  ASSUME NEW c, NEW f \in NatTraversal(c),
         c.realms = << >> \/ \E r : /\ c.realms = <<r>> /\ r.advertised \notin {"?", "private4"}
                                    /\ r.symmetric # "off"
  PROVE  f = NoRealm /\ c.realms = << >>
<1>. DEFINE realms == DOMAIN c.realms
            public == {i \in realms : c.realms[i].role # "internal"}
            P == {i \in public : c.realms[i].advertised = "?" /\ ~LocalPublic(c.realms[i])}
            Q == {i \in public : c.realms[i].advertised = "private4"}
            S == {i \in realms : c.realms[i].symmetric = "off"}
            mixed == \A v \in {4, 6} : \E i \in public : FamilyOf(c.realms[i]) = v
<1>1. NatTraversal(c) =
        When(realms = {}, "D.MEDIA.NO_REALM", "MEDIUM") \cup Each(P, "D.NAT.NO_PUBLIC_IP", "HIGH")
        \cup Each(Q, "D.NAT.PRIVATE_ADVERTISED", "CRITICAL")
        \cup Each(S, "D.NAT.NO_SYMMETRIC_RTP", "MEDIUM") \cup When(mixed, "D.IPV6.MIXED_MODE", "MEDIUM")
  BY DEF NatTraversal
<1>2. P = {} /\ Q = {} /\ S = {} /\ ~mixed
  <2>1. CASE c.realms = << >>
    BY <2>1
  <2>2. CASE \E r : /\ c.realms = <<r>> /\ r.advertised \notin {"?", "private4"} /\ r.symmetric # "off"
    <3>1. PICK r : c.realms = <<r>> /\ r.advertised \notin {"?", "private4"} /\ r.symmetric # "off"
      BY <2>2
    <3>2. realms = {1} /\ c.realms[1] = r
      BY <3>1
    <3>3. P = {} /\ Q = {} /\ S = {}
      BY <3>1, <3>2
    <3>4. ~mixed
      <4>1. SUFFICES ASSUME mixed PROVE FALSE
        OBVIOUS
      <4>2. FamilyOf(c.realms[1]) = 4 /\ FamilyOf(c.realms[1]) = 6
        <5>. HIDE DEF realms
        <5>. QED BY <3>2, <4>1
      <4>. QED BY <4>2
    <3>. QED BY <3>3, <3>4
  <2>. QED BY <2>1, <2>2
<1>. HIDE DEF P, Q, S, mixed
<1>3. f \in When(realms = {}, "D.MEDIA.NO_REALM", "MEDIUM")
  BY <1>1, <1>2 DEF When, Each
<1>4. f = NoRealm /\ realms = {}
  BY <1>3 DEF When, Each, NoRealm, Note
<1>. QED BY <1>4

\* What passes: remarks, two pieces of advice and two findings of MEDIUM.
LEMMA LittlePasses ==
  ASSUME NEW fs, NEW a \in Advice, NEW b \in Advice, NEW m,
         m \in {NoFqdn, NoRules},
         \A f \in fs : Remark(f) \/ f \in {Note(a, "LOW"), Note(b, "LOW")} \/ f \in {m, NoRealm}
  PROVE  Verdict(fs) = "PASS" /\ Outcome(fs) \notin Dead
<1>. DEFINE lows == {Note(a, "LOW"), Note(b, "LOW")}
            mediums == {m, NoRealm}
<1>1. \A f \in mediums : f.sev = "MEDIUM" /\ f.id \in {"A.SEM.MISSING_FQDN", "B.SIP.NO_NORMALIZATION",
                                                       "D.MEDIA.NO_REALM"}
  BY DEF NoFqdn, NoRules, NoRealm, Note
<1>2. \A f \in lows : f.sev = "LOW" /\ f.id \in Advice
  BY DEF Note
<1>3. \A f \in fs : Remark(f) \/ f \in lows \/ f \in mediums
  OBVIOUS
<1>4. \A x, y : IsFiniteSet({x, y}) /\ Cardinality({x, y}) \in Nat /\ Cardinality({x, y}) <= 2
  <2>1. SUFFICES ASSUME NEW x, NEW y
                 PROVE  IsFiniteSet({x, y}) /\ Cardinality({x, y}) \in Nat /\ Cardinality({x, y}) <= 2
    OBVIOUS
  <2>2. {x, y} = {x} \cup {y}
    OBVIOUS
  <2>3. IsFiniteSet({x}) /\ Cardinality({x}) = 1
    BY FS_Singleton
  <2>4. IsFiniteSet({x} \cup {y}) /\ Cardinality({x} \cup {y}) = IF y \in {x} THEN 1 ELSE 2
    BY <2>3, FS_AddElement, SMTT(40)
  <2>. QED BY <2>2, <2>4
<1>. HIDE DEF lows, mediums
<1>5. \A S, T : IsFiniteSet(T) /\ S \subseteq T /\ Cardinality(T) \in Nat /\ Cardinality(T) <= 2
        => Cardinality(S) \in Nat /\ Cardinality(S) <= 2
  <2>. SUFFICES ASSUME NEW S, NEW T, IsFiniteSet(T), S \subseteq T, Cardinality(T) \in Nat,
                       Cardinality(T) <= 2
                PROVE  Cardinality(S) \in Nat /\ Cardinality(S) <= 2
    OBVIOUS
  <2>1. IsFiniteSet(S) /\ Cardinality(S) <= Cardinality(T)
    BY FS_Subset
  <2>2. Cardinality(S) \in Nat
    BY <2>1, FS_CardinalityType
  <2>. QED BY <2>1, <2>2
<1>6. {f \in fs : f.sev = "LOW"} \subseteq lows /\ {f \in fs : f.sev = "MEDIUM"} \subseteq mediums
      /\ {f \in fs : f.sev = "HIGH"} = {} /\ {f \in fs : f.sev = "CRITICAL"} = {}
  BY <1>1, <1>2, <1>3 DEF Remark
<1>7. Count(fs, "LOW") \in 0..2 /\ Count(fs, "MEDIUM") \in 0..2
  <2>1. IsFiniteSet(lows) /\ Cardinality(lows) \in Nat /\ Cardinality(lows) <= 2
    BY <1>4 DEF lows
  <2>2. IsFiniteSet(mediums) /\ Cardinality(mediums) \in Nat /\ Cardinality(mediums) <= 2
    BY <1>4 DEF mediums
  <2>3. Cardinality({f \in fs : f.sev = "LOW"}) \in Nat /\ Cardinality({f \in fs : f.sev = "LOW"}) <= 2
    BY <1>5, <1>6, <2>1
  <2>4. Cardinality({f \in fs : f.sev = "MEDIUM"}) \in Nat
        /\ Cardinality({f \in fs : f.sev = "MEDIUM"}) <= 2
    BY <1>5, <1>6, <2>2
  <2>. QED BY <2>3, <2>4 DEF Count
<1>8. Count(fs, "HIGH") = 0 /\ Count(fs, "CRITICAL") = 0 /\ ~Has(fs, "HIGH") /\ ~Has(fs, "CRITICAL")
  BY <1>6, FS_EmptySet DEF Count, Has
<1>9. RiskScore(fs) <= 16 /\ RiskScore(fs) \in Nat
  BY <1>7, <1>8 DEF RiskScore, Raw
<1>10. Verdict(fs) = "PASS"
  BY <1>8, <1>9 DEF Verdict, BlockAt, ReviewAt
<1>11. \A f \in fs : ~Fatal(f)
  <2>. SUFFICES ASSUME NEW f \in fs PROVE ~Fatal(f)
    OBVIOUS
  <2>1. f.id \in Remarks \cup Advice \cup {"A.SEM.MISSING_FQDN", "B.SIP.NO_NORMALIZATION",
                                           "D.MEDIA.NO_REALM"}
    BY <1>1, <1>2, <1>3 DEF Remark
  <2>. QED
    BY <2>1, StopsAre DEF Remarks, Advice, TlsHardStop, SipHardStop, SdpHardStop, MediaHardStop
<1>12. Outcome(fs) \notin Dead
  BY <1>11, DeadByFinding
<1>. QED BY <1>10, <1>12
LEMMA SoundRealms ==
  ASSUME NEW e \in Export, SoundRest(e)
  PROVE  \/ ParseRealms(e) = << >>
         \/ \E r : /\ ParseRealms(e) = <<r>> /\ r.advertised \notin {"?", "private4"}
                   /\ r.symmetric # "off"
<1>1. \A a, b, s : /\ Realm(a, b, s) = <<[role |-> "unknown", advertised |-> a, local |-> b,
                                          symmetric |-> s]>>
  BY DEF Realm
<1>2. \A a, b, s : a \notin {"?", "private4"} /\ s # "off" =>
        \E r : Realm(a, b, s) = <<r>> /\ r.advertised \notin {"?", "private4"} /\ r.symmetric # "off"
  <2>. SUFFICES ASSUME NEW a, NEW b, NEW s, a \notin {"?", "private4"}, s # "off"
                PROVE  \E r : /\ Realm(a, b, s) = <<r>> /\ r.advertised \notin {"?", "private4"}
                              /\ r.symmetric # "off"
    OBVIOUS
  <2>. DEFINE r == [role |-> "unknown", advertised |-> a, local |-> b, symmetric |-> s]
  <2>1. Realm(a, b, s) = <<r>> /\ r.advertised = a /\ r.symmetric = s
    BY <1>1
  <2>. HIDE DEF r
  <2>. QED BY <2>1
<1>3. CASE e.format = "ini"
  <2>1. ParseRealms(e) = Realm(e.address, e.local, "on") /\ e.address \notin {"?", "private4"}
    BY <1>3 DEF ParseRealms, SoundRest, OffUnlessOn
  <2>. QED BY <1>2, <2>1
<1>4. CASE e.format = "table"
  <2>1. ParseRealms(e) = Realm(TableAddress(e), "?", "on")
    BY <1>4 DEF ParseRealms, SoundRest, Tabled
  <2>2. TableAddress(e) \notin {"?", "private4"}
    BY <1>4 DEF TableAddress, SoundRest, Tabled, Public
  <2>. QED BY <1>2, <2>1, <2>2
<1>5. CASE e.format \in {"cube", "ribbon"}
  <2>1. e.address \notin {"?", "private4"} /\ e.symmetric # "off"
    BY <1>5 DEF SoundRest
  <2>2. ParseRealms(e) = Realm(e.address, "?", "on")
    BY <1>5, <2>1 DEF ParseRealms, OnUnlessOff
  <2>. QED BY <1>2, <2>1, <2>2
<1>6. CASE e.format \in {"oracle", "perimeta"}
  BY <1>6 DEF ParseRealms
<1>. QED BY <1>3, <1>4, <1>5, <1>6 DEF Export, Formats

LEMMA SoundRouting ==
  ASSUME NEW e \in Export, SoundRest(e), NEW c, c = ParseExport(e)
  PROVE  Routing(c) = {}
<1>. DEFINE outbound == \A r \in c.routes : r[1] = "teams" => r[2] = "teams"
            inbound == \A r \in c.routes : r[2] = "teams" => r[1] = "teams"
<1>1. c.classified # "off"
  BY DEF ParseExport, ParseClassified, SoundRest
<1>2. c.routes # {} => ~outbound /\ ~inbound
  <2>. SUFFICES ASSUME c.routes # {} PROVE ~outbound /\ ~inbound
    OBVIOUS
  <2>1. Tabled(e) /\ c.routes = {<<RoleByPeer(e.legs[r[1]]), RoleByPeer(e.legs[r[2]])>> : r \in e.routes}
    BY DEF ParseExport, ParseRoutes
  <2>2. e.routes # {}
    BY <2>1
  <2>3. PICK r \in e.routes : e.legs[r[1]].hub = TRUE /\ e.legs[r[2]].hub = FALSE
    BY <2>1, <2>2 DEF SoundRest, SoundRoutes
  <2>4. PICK s \in e.routes : e.legs[s[1]].hub = FALSE /\ e.legs[s[2]].hub = TRUE
    BY <2>1, <2>2 DEF SoundRest, SoundRoutes
  <2>5. /\ RoleByPeer(e.legs[r[1]]) = "teams" /\ RoleByPeer(e.legs[r[2]]) = "carrier"
        /\ RoleByPeer(e.legs[s[1]]) = "carrier" /\ RoleByPeer(e.legs[s[2]]) = "teams"
    BY <2>3, <2>4 DEF RoleByPeer
  <2>6. <<"teams", "carrier">> \in c.routes /\ <<"carrier", "teams">> \in c.routes
    BY <2>1, <2>3, <2>4, <2>5
  <2>. QED BY <2>6
<1>3. Routing(c) = IF ~HasTeams(c) THEN {}
                   ELSE When(c.classified = "off", "G.CLASS.UNCLASSIFIED", "HIGH")
                        \cup When(c.routes # {} /\ outbound, "G.ROUTE.NO_FROM_TEAMS", "HIGH")
                        \cup When(c.routes # {} /\ inbound, "G.ROUTE.NO_TO_TEAMS", "HIGH")
  BY DEF Routing
<1>. HIDE DEF outbound, inbound
<1>. QED BY <1>1, <1>2, <1>3 DEF When

LEMMA SoundAccess ==
  ASSUME NEW e \in Export, SoundRest(e), NEW c, c = ParseExport(e)
  PROVE  AccessControl(c) = {}
<1>. DEFINE rules   == DOMAIN c.acls
            permits == {i \in rules : c.acls[i].action = "permit"}
            denies  == rules \ permits
            planes  == {c.acls[i].plane : i \in permits}
            vers    == {c.acls[i].ver : i \in rules}
            shadows == {i \in rules : Shadowed(c.acls, i)}
            open    == permits # {} /\ \A i \in denies : c.acls[i].net \notin {"none", "any"}
            broad   == {i \in permits : c.acls[i].net \in {"any", "wide"}}
<1>1. c.rtpCheck = "?" /\ c.acls = (IF Tabled(e) THEN e.acls ELSE << >>)
  BY DEF ParseExport
<1>2. SoundRules(<< >>)
  BY DEF SoundRules
<1>3. SoundRules(c.acls)
  BY <1>1, <1>2 DEF SoundRest
<1>4. c.acls \in Seq(AccessControlEntry)
  BY <1>1 DEF Export
<1>5. ~open /\ broad = {} /\ planes # {"signaling"} /\ shadows = {}
  <2>1. permits # {} => /\ \E i \in denies : c.acls[i].net \in {"none", "any"}
                        /\ \E i \in permits : c.acls[i].plane # "signaling"
    BY <1>3 DEF SoundRules
  <2>2. planes = {"signaling"} => permits # {} /\ \A i \in permits : c.acls[i].plane = "signaling"
    OBVIOUS
  <2>3. broad = {} /\ shadows = {}
    BY <1>3 DEF SoundRules
  <2>. QED BY <2>1, <2>2, <2>3
<1>6. vers # {4}
  <2>1. CASE c.acls = << >>
    BY <2>1
  <2>2. CASE c.acls # << >>
    <3>1. \E i \in rules : c.acls[i].ver = 6
      BY <1>3, <2>2 DEF SoundRules
    <3>. QED BY <3>1
  <2>. QED BY <2>1, <2>2
<1>7. AccessControl(c) =
        When(open, "S.ACL.NO_DEFAULT_DENY", "HIGH") \cup Each(broad, "S.ACL.BROAD_CIDR", "MEDIUM")
        \cup When(planes = {"signaling"}, "S.ACL.MEDIA_PLANE_MISSING", "HIGH")
        \cup When(vers = {4}, "S.ACL.IPV6_NEGLECT", "HIGH")
        \cup Each(shadows \cap denies, "S.ACL.SHADOWED_DENY", "HIGH")
        \cup Each(shadows \cap permits, "S.ACL.SHADOWED_PERMIT", "MEDIUM")
        \cup When(c.rtpCheck = "off", "S.RTP.SOURCE_VALIDATION_OFF", "MEDIUM")
  BY DEF AccessControl
<1>. HIDE DEF rules, permits, denies, planes, vers, shadows, open, broad
<1>8. shadows \cap denies = {} /\ shadows \cap permits = {} /\ c.rtpCheck # "off"
  BY <1>1, <1>5
<1>9. \A id, sev : Each({}, id, sev) = {}
  BY DEF Each
<1>. QED BY <1>5, <1>6, <1>7, <1>8, <1>9 DEF When

\* An export with nothing wrong in it passes and its call goes through, in every
\* format, for any number of legs and whatever it leaves out.
THEOREM SoundExportsPass ==
  ASSUME NEW e \in Export, Sound(e), NEW fs, fs = AllFindings(ParseExport(e))
  PROVE  Verdict(fs) = "PASS" /\ Outcome(fs) \notin Dead
<1>. DEFINE c == ParseExport(e)
            t == ParseLeg(e, TeamsLeg(e))
            m == IF e.format = "perimeta" THEN NoFqdn ELSE NoRules
<1>1. SoundRest(e) /\ SoundFaces(c, t)
      /\ (e.format # "oracle" => \E i \in DOMAIN c.ifaces : c.ifaces[i].normalized)
  BY SoundFacesParsed DEF Sound
<1>2. /\ c.fqdn = (IF e.format = "perimeta" THEN "none" ELSE "name")
      /\ c.ios \notin {"old", "oldIsr4k"} /\ c.realms = ParseRealms(e)
  BY <1>1 DEF ParseExport, SoundRest
<1>3. /\ HasTeams(c) /\ t = Teams(c) /\ t.tls # NoContext /\ GoodContext(t.tls) /\ t.srtp # "off"
  BY <1>1 DEF SoundFaces
<1>4. fs = SyntaxSemantic(c) \cup Interop(c) \cup CaCompliance(c) \cup NatTraversal(c)
           \cup Codec(c) \cup Routing(c) \cup AccessControl(c)
  BY DEF AllFindings
<1>5. Routing(c) = {} /\ AccessControl(c) = {}
  BY <1>1, SoundRouting, SoundAccess
<1>. HIDE DEF c, t
<1>6. PICK a \in Advice, b \in Advice : \A f \in Context(c, t, t.tls) :
        Remark(f) \/ f \in {Note(a, "LOW"), Note(b, "LOW")}
  BY <1>2, <1>3, GoodContextFindings
<1>7. CaCompliance(c) = Context(c, t, t.tls)
  BY <1>3 DEF CaCompliance
<1>8. \A f \in SyntaxSemantic(c) : f = m
  <2>1. \A f \in SyntaxSemantic(c) : f = NoFqdn /\ c.fqdn = "none"
    BY <1>1, <1>2, SoundSyntax
  <2>. QED BY <1>2, <2>1
<1>9. \A f \in Interop(c) : Remark(f) \/ f = m
  <2>1. \A f \in Interop(c) : Remark(f) \/ (f = NoRules /\ e.format = "oracle")
    BY <1>1, <1>2, SoundInterop
  <2>. QED BY <2>1
<1>10. \A f \in NatTraversal(c) : f = NoRealm
  BY <1>1, <1>2, SoundRealms, SoundMedia
<1>11. \A f \in Codec(c) : Remark(f)
  BY <1>1, SoundCodec
<1>12. m \in {NoFqdn, NoRules}
  OBVIOUS
<1>. HIDE DEF m
<1>13. \A f \in fs : Remark(f) \/ f \in {Note(a, "LOW"), Note(b, "LOW")} \/ f \in {m, NoRealm}
  BY <1>4, <1>5, <1>6, <1>7, <1>8, <1>9, <1>10, <1>11
<1>. QED BY <1>12, <1>13, LittlePasses

\* What the pipeline says of such a file.
THEOREM CleanFilesPass == Spec => []CleanPasses
<1>1. Faithful /\ ReadInv /\ IInv => CleanPasses
  <2>. SUFFICES ASSUME Faithful, ReadInv, IInv, Judged, Sound(Source(file))
                PROVE  verdict = "PASS" /\ outcome \notin Dead
    BY DEF CleanPasses
  <2>1. /\ config = Parse(file) /\ config # Unparsable /\ findings = AllFindings(config)
        /\ verdict = Verdict(findings) /\ outcome = Outcome(findings) /\ file \in Files
    BY DEF Faithful, FindingsInv, VerdictInv, OutcomeInv, ReadInv, Judged, IInv, TypeOK
  <2>2. Source(file) \in Export /\ config = ParseExport(Source(file))
    BY <2>1, SourceAssumption, ParserAssumption DEF DetectAndParse
  <2>. QED BY <2>1, <2>2, SoundExportsPass
<1>. QED BY <1>1, RunsFaithful, RunsTyped, EditsAreHistory, PTL
=============================================================================
