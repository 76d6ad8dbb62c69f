--------------------------- MODULE VendorPipeline ---------------------------
(***************************************************************************)
(* The pipeline behind the parsers: what an export of one of the six       *)
(* formats shows, and what the report says of it.                          *)
(*                                                                         *)
(* A definition named X_Y is the definition X with a bug Y.                *)
(***************************************************************************)
EXTENDS ValidationPipeline, Parsers

CONSTANT Source(_)  \* the export a file holds; Unparsable if no parser knows it

ASSUME SourceAssumption == \A f \in Files : Source(f) \in Export \cup {Unparsable}

\* The parser of the first format that recognises the text.
DetectAndParse(e) == IF e = Unparsable THEN Unparsable ELSE ParseExport(e)
ASSUME ParserAssumption == \A f \in Files : Parse(f) = DetectAndParse(Source(f))
----------------------------------------------------------------------------
(* What each format has lines for, apart from the transport.                 *)
Store   == {"minTls", "ciphers", "pem"}
Carries ==
  [ini |-> {"fqdn", "keepalive", "interval", "contact", "normalized", "codecs", "dtmf", "srtp",
            "mtls", "roots", "listed", "realm", "address", "symmetric"} \cup Store,
   table |-> {"fqdn", "keepalive", "interval", "normalized", "codecs", "srtp", "refs", "realm",
              "address", "nat", "routes", "classified", "acls"} \cup Store,
   cube |-> {"fqdn", "keepalive", "interval", "normalized", "codecs", "dtmf", "srtp", "roots",
             "listed", "address", "symmetric", "ios"} \cup Store,
   oracle |-> {"fqdn", "keepalive", "interval", "codecs", "srtp"} \cup Store,
   ribbon |-> {"fqdn", "keepalive", "normalized", "codecs", "dtmf", "srtp", "mtls", "roots",
               "profile", "address", "symmetric"} \cup Store,
   perimeta |-> {"keepalive", "interval", "normalized"}]

\* The first leg that is to Teams by its name or by its peer, where it is by both.
ToTeams(l)      == l.hub \/ l.label = "teams"
TeamsLegs(e)    == {i \in DOMAIN e.legs : ToTeams(e.legs[i])}
TeamsLeg(e)     == e.legs[First(TeamsLegs(e))]
HasTeamsLeg(e)  == TeamsLegs(e) # {} /\ TeamsLeg(e).hub /\ TeamsLeg(e).label = "teams"

\* The records the leg refers to are in the export.
Referred(e, t) == ~Tabled(e) \/ "profile" \in t.refs
Reached(e, t)  == ~Tabled(e) \/ "proxySet" \in t.refs

\* The coders of a leg that its parser has a name for.
Legible(e, t) == IF e.format \in {"table", "oracle"} THEN t.coders.list \cap NamedCoders
                 ELSE t.coders.list

Due(cond, id) == IF cond THEN {id} ELSE {}

\* Keep-alives of the leg are off: an adjacency has no line that says so, and a
\* switch for every leg outweighs the one of a dial peer.
Unpinged(e, t) == /\ "keepalive" \in Carries[e.format] /\ e.format # "perimeta"
                  /\ ~(e.format = "cube" /\ e.pinged) /\ t.keepalive = "off"

\* The checks that an export shows to be due: it has the line, the line is
\* wrong, and the leg it is about is there.  Not among them is a list of coders of
\* which the parser knows none: it is dropped whole, as if it were not there.
DueOfLeg(e, t) ==
  LET C == Carries[e.format]
  IN  Due(Transport(t) \in {"tcp", "udp"}, "B.SIP.TRANSPORT")
      \cup Due(Unpinged(e, t) /\ Reached(e, t), "B.SIP.OPTIONS_KEEPALIVE")
      \cup Due("interval" \in C /\ Reached(e, t) /\ ~IntervalOk(t.interval), "B.SIP.OPTIONS_INTERVAL")
      \cup Due("contact" \in C /\ e.fqdn # "none" /\ t.contact = "outside", "B.SIP.CONTACT_FQDN")
      \cup Due("codecs" \in C /\ Referred(e, t) /\ t.coders.given /\ Legible(e, t) # {}
                 /\ t.coders.list \cap (TeamsCodecs \cup {"AMR-WB"}) = {}, "E.CODEC.NO_TEAMS_OVERLAP")
      \cup Due(e.format \in {"ini", "cube"} /\ t.coders.given /\ t.coders.list = {},
               "E.CODEC.NONE_OFFERED")
      \cup Due("dtmf" \in C /\ t.dtmf = "inband", "E.DTMF.INBAND_TEAMS")

DueOfTls(e, t) ==
  LET C == Carries[e.format] \ (IF e.format = "ribbon" /\ ~e.profile
                                THEN {"mtls", "minTls", "ciphers"} ELSE {})
      seen == "pem" \in C /\ e.pem = "read" /\ (e.format = "cube" => e.named)
  IN  Due("srtp" \in C /\ Referred(e, t) /\ t.srtp = "off", "C.SRTP.DISABLED")
      \cup Due("mtls" \in C /\ e.mtls = "off", "C.TLS.MTLS_DISABLED")
      \cup Due("minTls" \in C /\ e.minTls \in {"1.0", "1.1"}, "C.TLS.WEAK_VERSION")
      \cup Due("ciphers" \in C /\ e.ciphers = "foreign", "C.TLS.CIPHER_NOT_ALLOWED")
      \cup Due("roots" \in C /\ ~(RequiredRoots \subseteq e.roots), "C.CA.ROOT_MISSING")
      \cup Due(seen /\ "server" \notin e.leaf.ekus, "C.CERT.EKU_NO_SERVERAUTH")
      \cup Due(seen /\ e.leaf.expiry \in {"past", "soon"}, "C.CERT.EXPIRY")
      \cup Due(seen /\ e.chain = "selfSigned", "C.CERT.SELF_SIGNED")
      \cup Due("listed" \in C /\ e.named /\ e.pem = "none" /\ e.fqdn # "none" /\ ~e.listed.covers,
               "C.CERT.FQDN_MISMATCH")

DueOfRest(e) ==
  LET C == Carries[e.format] IN
  Due("fqdn" \in C /\ e.fqdn \in {"malformed", "ip"}, "A.SYN.FQDN_FORMAT")
  \cup Due("address" \in C /\ "nat" \notin C /\ e.realm /\ e.address = "private4",
           "D.NAT.PRIVATE_ADVERTISED")
  \cup Due("nat" \in C /\ e.realm /\ ~Public(e.address) /\ ~Public(e.nat), "D.NAT.NO_PUBLIC_IP")
  \cup Due("symmetric" \in C /\ e.realm /\ e.address # "?" /\ e.symmetric = "off",
           "D.NAT.NO_SYMMETRIC_RTP")
  \cup Due("classified" \in C /\ ~e.classified, "G.CLASS.UNCLASSIFIED")
  \cup Due("ios" \in C /\ e.ios \in {"old", "oldIsr4k"} /\ Transport(TeamsLeg(e)) = "tls",
           "C.PLATFORM.IOSXE_EKU_FLOOR")

DueOf(e) == IF ~HasTeamsLeg(e) THEN {}
            ELSE LET t == TeamsLeg(e) IN
                 DueOfRest(e) \cup DueOfLeg(e, t)
                 \cup IF Transport(t) = "tls" /\ (e.format # "ini" \/ t.bound)
                      THEN DueOfTls(e, t) ELSE {}

\* A fault that an export shows is found, whichever format it is in: no parser
\* drops a line its format has on the way to the validators.
ShownFaultsAreFound == Judged => DueOf(Source(file)) \subseteq Ids(findings)

(* An export with nothing wrong in it: what it says is right, and what it     *)
(* leaves out is nothing that its parser takes for a setting that is off.     *)
SoundLeg(e, t) ==
  /\ e.format # "perimeta" /\ Reached(e, t) /\ ~(e.format = "cube" /\ e.pinged)
       => t.keepalive = "on"
  /\ IntervalOk(t.interval) /\ t.contact # "outside"
  /\ t.coders.given => Legible(e, t) \cap (TeamsCodecs \cup {"AMR-WB"}) # {}
  /\ "srtp" \in Carries[e.format] /\ Referred(e, t) => t.srtp = "on"

SoundLegs(e) ==
  /\ \A i, j \in DOMAIN e.legs : e.legs[i].name = e.legs[j].name => i = j
  /\ \A i \in DOMAIN e.legs :
       /\ e.format = "ini" /\ Transport(e.legs[i]) = "tls" => e.legs[i].bound
       /\ e.legs[i].dtmf \in {"?", "rfc2833"}
  /\ e.format # "oracle" => \E i \in DOMAIN e.legs : e.legs[i].normalized
  /\ \E k \in Codecs : \A i \in DOMAIN e.legs :
       e.legs[i].coders.given /\ e.legs[i].coders.list # {} => k \in Legible(e, e.legs[i])

\* The certificate is in a file; an ini can list it, and what is imported
\* separately can be left out.
SoundDetails(d) == "server" \in d.ekus /\ d.expiry \in {"?", "far"} /\ d.covers
SoundCert(e) ==
  \/ /\ e.pem = "read" /\ e.chain \in RequiredRoots \ ChainFaults
     /\ SoundDetails(e.leaf) /\ (e.format = "cube" => e.named)
  \/ /\ e.format = "ini" /\ e.pem = "none" /\ e.named
     /\ SoundDetails(e.listed) /\ e.listed.chainComplete = "on"
  \/ e.format \in {"table", "oracle"} /\ e.pem = "none"
  \/ e.format = "perimeta"

SoundTls(e, t) ==
  /\ Transport(t) = "tls" /\ SoundCert(e)
  /\ e.format = "ini" \/ (e.format = "ribbon" /\ e.profile) => e.mtls = "on"
  /\ e.minTls \notin {"1.0", "1.1"} /\ e.ciphers # "foreign"
  /\ "roots" \in Carries[e.format] => RequiredRoots \subseteq e.roots

SoundRoutes(e) ==
  LET FromTo(a, b) == \E r \in e.routes : e.legs[r[1]].hub = a /\ e.legs[r[2]].hub = b
  IN  e.routes = {} \/ (FromTo(TRUE, FALSE) /\ FromTo(FALSE, TRUE))

SoundRest(e) ==
  /\ e.format = "perimeta" \/ e.fqdn = "name"
  /\ e.format = "cube" => e.ios \notin {"old", "oldIsr4k"}
  /\ e.format = "ini" => e.realm /\ e.symmetric = "on"
  /\ e.format \in {"cube", "ribbon"} => e.symmetric # "off"
  /\ e.format \in {"ini", "cube", "ribbon"} => e.address \notin {"?", "private4"}
  /\ Tabled(e) => /\ e.realm /\ (Public(e.address) \/ Public(e.nat)) /\ e.classified
                  /\ SoundRoutes(e) /\ SoundRules(e.acls)

Sound(e) == /\ HasTeamsLeg(e) /\ SoundLeg(e, TeamsLeg(e)) /\ SoundTls(e, TeamsLeg(e))
            /\ SoundLegs(e) /\ SoundRest(e)

\* An export with nothing wrong in it passes, and its call goes through, in
\* every format, however many settings it leaves out (risk.py: the thresholds
\* flip no clean configuration).
CleanPasses == Judged /\ Sound(Source(file)) => verdict = "PASS" /\ outcome \notin Dead
=============================================================================
