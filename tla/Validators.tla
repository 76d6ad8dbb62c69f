----------------------------- MODULE Validators -----------------------------
(***************************************************************************)
(* The seven validators of `validate` (validators/*.py): pure functions    *)
(* from a normalized configuration to findings, with the rules of the      *)
(* shipped bundle.  A finding is its check id, its severity and, where one *)
(* check can fire more than once, the place it is about.                   *)
(*                                                                         *)
(* A definition named X_Y is the definition X with a bug Y.                *)
(***************************************************************************)
EXTENDS NormalizedModel

Severities == {"INFO", "LOW", "MEDIUM", "HIGH", "CRITICAL"}

Each(places, id, sev) == {[id |-> id, sev |-> sev, at |-> i] : i \in places}
When(cond, id, sev)   == IF cond THEN Each({0}, id, sev) ELSE {}

(* A: structure. *)
SyntaxSemantic(c) ==
  LET faces == DOMAIN c.ifaces IN
  When(faces = {}, "A.STRUCT.NO_SIP_INTERFACES", "HIGH")
  \cup When(c.fqdn = "none", "A.SEM.MISSING_FQDN", "MEDIUM")
  \cup When(c.fqdn \in {"malformed", "ip"}, "A.SYN.FQDN_FORMAT", "MEDIUM")
  \cup Each({c.ifaces[i].name : i \in {j \in faces : \E k \in faces \ {j} :
               c.ifaces[k].name = c.ifaces[j].name}}, "A.SEM.DUP_INTERFACE", "MEDIUM")
  \cup Each({i \in faces : c.ifaces[i].transport = "tls" /\ c.ifaces[i].tls = NoContext},
            "A.SEM.DANGLING_TLS", "HIGH")

(* B: SIP interoperability. *)
RequiredTransport == "tls"
IntervalOk(s) == s = -1 \/ (60 <= s /\ s <= 180)

Bridging(c) == HasTeams(c) /\ HasCarrier(c)

TeamsInterop(c, t) ==
  When(t.transport # RequiredTransport, "B.SIP.TRANSPORT", "HIGH")
  \cup When(t.keepalive = "off", "B.SIP.OPTIONS_KEEPALIVE", "MEDIUM")
  \cup When(~IntervalOk(t.interval), "B.SIP.OPTIONS_INTERVAL", "MEDIUM")
  \cup When(t.contact = "outside" /\ c.fqdn # "none", "B.SIP.CONTACT_FQDN", "HIGH")
  \cup When(HasCarrier(c) /\ Carrier(c).keepalive = "off", "B.SIP.CARRIER_NO_KEEPALIVE", "INFO")
  \cup When(Bridging(c) /\ \A i \in DOMAIN c.ifaces : ~c.ifaces[i].normalized,
            "B.SIP.NO_NORMALIZATION", "MEDIUM")

Interop(c) == When(c.fqdn = "ip", "B.SIP.IDENTITY_IS_IP", "HIGH")
              \cup IF HasTeams(c) THEN TeamsInterop(c, Teams(c))
                                  ELSE When(TRUE, "B.IFACE.NO_TEAMS", "MEDIUM")

(* C: TLS, trust store and leaf certificate. *)
TlsPolicy(x) == When(x.minTls \in {"1.0", "1.1"}, "C.TLS.WEAK_VERSION", "HIGH")
                \cup When(x.ciphers = "foreign", "C.TLS.CIPHER_NOT_ALLOWED", "CRITICAL")

\* The chain of a PEM that was read.  An empty `required` skips the check of
\* the root it ends at, and the chain counts as anchored.
Chain(k, required) ==
  When(k.chain = "selfSigned", "C.CERT.SELF_SIGNED", "HIGH")
  \cup When(k.chain = "badSignature", "C.CERT.CHAIN_INVALID", "HIGH")
  \cup When(k.chain = "noRoot", "C.CERT.CHAIN_INCOMPLETE", "MEDIUM")
  \cup When(k.chain \notin ChainFaults /\ required # {} /\ k.chain \notin required,
            "C.CERT.UNTRUSTED_ANCHOR", "MEDIUM")
  \cup When(k.chain \notin ChainFaults /\ (required = {} \/ k.chain \in required),
            "C.CERT.CHAIN_ANCHORED", "INFO")

Inspection(k) == When(k.pem = "read", "C.CERT.DEEP_INSPECTED", "INFO")
                 \cup When(k.pem = "noCrypto", "C.CERT.DEEP_UNAVAILABLE", "LOW")
Usage(k)  == When("server" \notin k.ekus, "C.CERT.EKU_NO_SERVERAUTH", "HIGH")
             \cup When(k.ekus = {"server", "client"}, "C.CERT.EKU_DUALUSE", "LOW")
Expiry(k) == When(k.expiry = "past", "C.CERT.EXPIRY", "CRITICAL")
             \cup When(k.expiry = "soon", "C.CERT.EXPIRY", "MEDIUM")

LeafCert(k, c, required) ==
  Inspection(k) \cup Usage(k) \cup Expiry(k)
  \cup When(c.fqdn # "none" /\ ~k.covers, "C.CERT.FQDN_MISMATCH", "HIGH")
  \cup When(k.issuer = "other" /\ k.pem = "none", "C.CERT.ISSUER_PROGRAM_UNVERIFIED", "LOW")
  \cup IF k.pem = "read" THEN Chain(k, required)
       ELSE When(k.chainComplete = "off", "C.CERT.CHAIN_INCOMPLETE", "MEDIUM")

LeafFindings(x, c, required) ==
  IF x.cert # NoCert THEN LeafCert(x.cert, c, required)
  ELSE When(x.introspectable, "C.CERT.MISSING", "CRITICAL")
       \cup When(~x.introspectable, "C.CERT.UNAVAILABLE", "LOW")

\* A store that is imported separately is not judged: required_roots is
\* emptied, or the roots not found in it are forgotten.
Unavailable(x) == x.roots = {} /\ ~x.introspectable
Demanded(x)    == IF Unavailable(x) THEN {} ELSE RequiredRoots
NotFound(x)    == Demanded(x) \ x.roots
Missing(x)     == IF x.introspectable THEN NotFound(x) ELSE {}

TrustStore(x) ==
  When(Unavailable(x) \/ (NotFound(x) # {} /\ ~x.introspectable),
       "C.CA.TRUST_STORE_UNAVAILABLE", "LOW")
  \cup When(Missing(x) # {}, "C.CA.ROOT_MISSING", "CRITICAL")
MediaTrust(t, x) ==
  When(t.srtp = "off", "C.SRTP.DISABLED", "HIGH")
  \cup When(t.srtp = "on" /\ (~x.introspectable \/ Missing(x) # {}),
            "C.SRTP.MEDIA_TRUST_UNVERIFIED", "INFO")
Platform(c) == When(c.ios = "old", "C.PLATFORM.IOSXE_EKU_FLOOR", "LOW")
               \cup When(c.ios = "oldIsr4k", "C.PLATFORM.IOSXE_EKU_FLOOR", "MEDIUM")

Context(c, t, x) ==
  When(x.mtls = "off", "C.TLS.MTLS_DISABLED", "HIGH") \cup MediaTrust(t, x) \cup TlsPolicy(x)
  \cup TrustStore(x) \cup Platform(c) \cup LeafFindings(x, c, Demanded(x))

CaCompliance_StopsAtMtls(c) ==
  IF ~HasTeams(c) THEN When(TRUE, "C.IFACE.NO_TEAMS", "MEDIUM")
  ELSE IF Teams(c).tls = NoContext THEN When(TRUE, "C.TLS.NO_CONTEXT", "CRITICAL")
  ELSE IF Teams(c).tls.mtls = "off" THEN When(TRUE, "C.TLS.MTLS_DISABLED", "HIGH")
  ELSE Context(c, Teams(c), Teams(c).tls)
CaCompliance(c) ==
  IF ~HasTeams(c) THEN When(TRUE, "C.IFACE.NO_TEAMS", "MEDIUM")
  ELSE IF Teams(c).tls = NoContext THEN When(TRUE, "C.TLS.NO_CONTEXT", "CRITICAL")
  ELSE Context(c, Teams(c), Teams(c).tls)

(* D: NAT and media. *)
Family(a)    == IF a = "public6" THEN 6 ELSE IF a \in {"private4", "public4"} THEN 4 ELSE 0
FamilyOf(r)  == IF Family(r.advertised) # 0 THEN Family(r.advertised) ELSE Family(r.local)
LocalPublic(r) == r.local \notin {"?", "private4"}

NatTraversal(c) ==
  LET realms == DOMAIN c.realms
      public == {i \in realms : c.realms[i].role # "internal"}
  IN  When(realms = {}, "D.MEDIA.NO_REALM", "MEDIUM")
      \cup Each({i \in public : c.realms[i].advertised = "?" /\ ~LocalPublic(c.realms[i])},
                "D.NAT.NO_PUBLIC_IP", "HIGH")
      \cup Each({i \in public : c.realms[i].advertised = "private4"},
                "D.NAT.PRIVATE_ADVERTISED", "CRITICAL")
      \cup Each({i \in realms : c.realms[i].symmetric = "off"},
                "D.NAT.NO_SYMMETRIC_RTP", "MEDIUM")
      \cup When(\A f \in {4, 6} : \E i \in public : FamilyOf(c.realms[i]) = f,
                "D.IPV6.MIXED_MODE", "MEDIUM")

(* E: codecs and DTMF. *)
Methods(c) == {c.ifaces[i].dtmf : i \in DOMAIN c.ifaces} \ {"?"}
Offered(c) == UNION {c.ifaces[i].codecs : i \in Legs(c)}

CarriesCodecs_Always(t) == TRUE
CarriesCodecs(t) == t.carried

TeamsCodec(t) ==
  When(CarriesCodecs(t) /\ t.codecs = {}, "E.CODEC.NONE_OFFERED", "HIGH")
  \cup When(CarriesCodecs(t) /\ t.codecs # {} /\ t.codecs \cap (TeamsCodecs \cup {"AMR-WB"}) = {},
            "E.CODEC.NO_TEAMS_OVERLAP", "HIGH")
  \cup When(CarriesCodecs(t) /\ t.codecs # {} /\ "AMR-WB" \notin t.codecs,
            "E.CODEC.AMRWB_NOT_OFFERED", "INFO")
  \cup When(t.dtmf = "inband", "E.DTMF.INBAND_TEAMS", "MEDIUM")

Codec(c) ==
  (IF HasTeams(c) THEN TeamsCodec(Teams(c)) ELSE {})
  \cup When(Cardinality(Legs(c)) >= 2 /\ Common(c) = {}, "E.CODEC.NO_CROSS_OVERLAP", "MEDIUM")
  \cup When(Cardinality(Legs(c)) >= 2 /\ Common(c) # {} /\ Common(c) \cap Wideband = {}
              /\ Offered(c) \cap Wideband # {}, "E.CODEC.WIDEBAND_DOWNGRADE", "INFO")
  \cup When(Methods(c) # {} /\ "rfc2833" \notin Methods(c), "E.DTMF.METHOD", "LOW")
  \cup When(Cardinality(Methods(c)) > 1, "E.DTMF.INCONSISTENT", "MEDIUM")

(* G: routing and classification. *)
Routing(c) ==
  IF ~HasTeams(c) THEN {}
  ELSE When(c.classified = "off", "G.CLASS.UNCLASSIFIED", "HIGH")
       \cup When(c.routes # {} /\ \A r \in c.routes : r[1] = "teams" => r[2] = "teams",
                 "G.ROUTE.NO_FROM_TEAMS", "HIGH")
       \cup When(c.routes # {} /\ \A r \in c.routes : r[2] = "teams" => r[1] = "teams",
                 "G.ROUTE.NO_TO_TEAMS", "HIGH")

(* S: access control.  Rules are ordered; the first one that matches wins.   *)
PlaneCovers_Touches(outer, inner) == outer = "both" \/ inner = "both" \/ outer = inner
PlaneCovers(outer, inner) == outer = "both" \/ outer = inner
NetCovers(outer, inner)   == outer = inner \/ outer = "any" \/ (outer = "wide" /\ inner = "tight")

\* An earlier rule of the opposite action covers the whole of rule i.
Shadowed(acls, i) ==
  /\ acls[i].net # "none"
  /\ \E j \in 1..(i-1) : /\ acls[j].action # acls[i].action /\ acls[j].net # "none"
                         /\ acls[j].ver = acls[i].ver
                         /\ PlaneCovers(acls[j].plane, acls[i].plane)
                         /\ NetCovers(acls[j].net, acls[i].net)

AccessControl(c) ==
  LET rules   == DOMAIN c.acls
      permits == {i \in rules : c.acls[i].action = "permit"}
      denies  == rules \ permits
      planes  == {c.acls[i].plane : i \in permits}
      vers    == {c.acls[i].ver : i \in rules}
      shadows == {i \in rules : Shadowed(c.acls, i)}
  IN  When(permits # {} /\ \A i \in denies : c.acls[i].net \notin {"none", "any"},
           "S.ACL.NO_DEFAULT_DENY", "HIGH")
      \cup Each({i \in permits : c.acls[i].net \in {"any", "wide"}}, "S.ACL.BROAD_CIDR", "MEDIUM")
      \cup When(planes = {"signaling"}, "S.ACL.MEDIA_PLANE_MISSING", "HIGH")
      \cup When(vers = {4}, "S.ACL.IPV6_NEGLECT", "HIGH")
      \cup Each(shadows \cap denies, "S.ACL.SHADOWED_DENY", "HIGH")
      \cup Each(shadows \cap permits, "S.ACL.SHADOWED_PERMIT", "MEDIUM")
      \cup When(c.rtpCheck = "off", "S.RTP.SOURCE_VALIDATION_OFF", "MEDIUM")

\* VALIDATORS, all of them, in one pass.
AllFindings(c) == SyntaxSemantic(c) \cup Interop(c) \cup CaCompliance(c) \cup NatTraversal(c)
                  \cup Codec(c) \cup Routing(c) \cup AccessControl(c)
==============================================================================
