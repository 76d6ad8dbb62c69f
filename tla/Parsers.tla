------------------------------- MODULE Parsers -------------------------------
(***************************************************************************)
(* The parsers (parsers/*.py), from an export to the normalized            *)
(* configuration.  An export is what the text says: a record of its        *)
(* settings, with "?" (-1 for a number) for a line it does not have.  The  *)
(* six formats name the same things in different ways, and differ in what  *)
(* they carry at all and in what the parser makes of a missing line.       *)
(*                                                                         *)
(* A definition named X_Y is the definition X with a bug Y.                *)
(***************************************************************************)
EXTENDS NormalizedModel

Formats == {"ini", "table", "cube", "oracle", "ribbon", "perimeta"}

\* What a certificate says of itself, in the export or in a PEM file.
Details == [ekus : SUBSET {"server", "client"}, covers : BOOLEAN,
            expiry : {"?", "past", "soon", "far"}, issuer : {"?", "program", "other"},
            chainComplete : Tri]

\* One leg: an interface section, IP group, tenant, session agent, zone or
\* adjacency.  label is the role its own name or description gives it, hub that
\* its peer is under pstnhub.microsoft.com; transports, where two places of the
\* export can name the transport, in the order they are looked at; bound that it
\* names a TLS context; refs the records it refers to that are in the export.
Leg == [name : Nat, label : Roles, hub : BOOLEAN, bound : BOOLEAN,
        transports : [1..2 -> {"?", "tls", "tcp", "udp"}],
        refs : SUBSET {"proxySet", "profile"}, keepalive : Tri, interval : Nat \cup {-1},
        contact : {"?", "under", "outside"}, normalized : BOOLEAN,
        coders : [given : BOOLEAN, list : SUBSET Codecs],
        dtmf : {"?", "rfc2833", "inband", "info"}, srtp : Tri]

\* named: the export names the identity the SBC presents, and listed are the
\* details it gives; pem is the annotated certificate file, and leaf and chain
\* what that holds.  profile: the TLS profile of the Teams leg is in the export;
\* pinged: keep-alives are on for every leg.  The legs share one TLS context.
Export == [format : Formats, fqdn : {"none", "name", "malformed", "ip"},
           ios : {"?", "fixed", "old", "oldIsr4k"}, named : BOOLEAN, listed : Details,
           pem : {"none", "unreadable", "noCrypto", "read"}, leaf : Details,
           chain : ChainFaults \cup RequiredRoots \cup OtherRoots,
           roots : SUBSET (RequiredRoots \cup OtherRoots), profile : BOOLEAN, mtls : Tri,
           minTls : {"?", "1.0", "1.1", "1.2", "1.3"}, ciphers : {"?", "empty", "foreign", "shared"},
           pinged : BOOLEAN, legs : Seq(Leg), realm : BOOLEAN, address : Addresses,
           local : Addresses, nat : Addresses, symmetric : Tri, routes : SUBSET (Nat \X Nat),
           classified : BOOLEAN, acls : Seq(AccessControlEntry)]

\* A boolean with a fallback of False, and one that is on unless it is off.
OffUnlessOn(x) == IF x = "on" THEN "on" ELSE "off"
OnUnlessOff(x) == IF x = "off" THEN "off" ELSE "on"

Transport(l)   == IF l.transports[1] # "?" THEN l.transports[1] ELSE l.transports[2]
RoleByPeer(l)  == IF l.hub THEN "teams" ELSE "carrier"
\* In a tenant the description comes before the server, and the last word counts.
RoleByEither(l) == IF l.hub THEN "teams" ELSE l.label

(* Certificates and TLS contexts. *)
Blank == [ekus |-> {}, covers |-> FALSE, expiry |-> "?", issuer |-> "?", chainComplete |-> "?"]

\* A Certificate the parser makes, which the PEM replaces when it can be read.
Leaf(e, details) ==
  LET seen == IF e.pem = "read" THEN e.leaf ELSE details
  IN  [ekus |-> seen.ekus, covers |-> seen.covers, expiry |-> seen.expiry, issuer |-> seen.issuer,
       chainComplete |-> seen.chainComplete, pem |-> e.pem, chain |-> e.chain]

IniCert(e) == IF ~e.named /\ e.pem = "none" THEN NoCert
              ELSE Leaf(e, [e.listed EXCEPT !.chainComplete = OffUnlessOn(@)])
AnnotatedCert(e) == IF e.pem = "none" THEN NoCert ELSE Leaf(e, Blank)
\* CUBE names a trustpoint; without a subject name the FQDN stands for it.
CubeCert(e) == IF ~e.named THEN NoCert
               ELSE Leaf(e, [Blank EXCEPT !.covers = e.listed.covers, !.chainComplete = "on"])
RibbonCert(e) == IF ~e.named /\ e.pem = "none" THEN NoCert
                 ELSE Leaf(e, [Blank EXCEPT !.covers = TRUE])

\* A store that the source carries, and one that is imported separately.
Carried(e, mtls, cert) == [mtls |-> mtls, cert |-> cert, roots |-> e.roots,
                           introspectable |-> TRUE, minTls |-> e.minTls, ciphers |-> e.ciphers]
Imported(e, mtls, cert) == [Carried(e, mtls, cert) EXCEPT !.roots = {}, !.introspectable = FALSE]

RibbonContext(e) ==
  IF e.profile THEN Carried(e, OffUnlessOn(e.mtls), RibbonCert(e))
  ELSE [Carried(e, "?", RibbonCert(e)) EXCEPT !.minTls = "?", !.ciphers = "?"]
PerimetaContext(e) == [Imported(e, "on", NoCert) EXCEPT !.minTls = "?", !.ciphers = "?"]

(* Legs. *)
IfTls(l, context) == IF Transport(l) = "tls" THEN context ELSE NoContext

\* Every setting of the leg as the export has it.
Plain(l) == [name |-> l.name, role |-> l.label, tls |-> NoContext, transport |-> Transport(l),
             keepalive |-> l.keepalive, interval |-> l.interval, contact |-> "?",
             normalized |-> l.normalized, carried |-> l.coders.given, codecs |-> l.coders.list,
             dtmf |-> l.dtmf, srtp |-> l.srtp]

\* A list of codecs that is empty counts as none at all (`or None`).
EmptyIsNone(x) == [x EXCEPT !.carried = @ /\ x.codecs # {}]
Silenced(x)    == [x EXCEPT !.carried = FALSE, !.codecs = {}]

\* The coders of _CODER, in the table format and in Oracle's; the other parsers
\* keep what they do not know under its own name.
NamedCoders  == {"PCMU", "PCMA", "G722", "G729", "SILK", "OPUS"}
NamedOnly(x) == [x EXCEPT !.codecs = @ \cap NamedCoders]

IniLeg(e, l) ==
  [Plain(l) EXCEPT !.tls = IF l.bound THEN Carried(e, OffUnlessOn(e.mtls), IniCert(e)) ELSE NoContext,
     !.keepalive = OffUnlessOn(@), !.contact = l.contact, !.srtp = OffUnlessOn(@)]

TableLeg_Guessing(e, l) ==
  [EmptyIsNone(IF "profile" \in l.refs THEN NamedOnly(Plain(l)) ELSE Silenced(Plain(l))) EXCEPT
     !.role = RoleByPeer(l), !.tls = IfTls(l, Imported(e, "on", AnnotatedCert(e))),
     !.keepalive = IF "proxySet" \in l.refs THEN OffUnlessOn(@) ELSE "off",
     !.interval  = IF "proxySet" \in l.refs THEN @ ELSE -1,
     !.srtp      = IF "profile" \in l.refs THEN OffUnlessOn(@) ELSE "?", !.dtmf = "?"]
\* A ProxySet or IPProfile that is not in the export is unknown; one that is,
\* without the column, is off.
TableLeg(e, l) ==
  [EmptyIsNone(IF "profile" \in l.refs THEN NamedOnly(Plain(l)) ELSE Silenced(Plain(l))) EXCEPT
     !.role = RoleByPeer(l), !.tls = IfTls(l, Imported(e, "on", AnnotatedCert(e))),
     !.keepalive = IF "proxySet" \in l.refs THEN OffUnlessOn(@) ELSE "?",
     !.interval  = IF "proxySet" \in l.refs THEN @ ELSE -1,
     !.srtp      = IF "profile" \in l.refs THEN OffUnlessOn(@) ELSE "?", !.dtmf = "?"]

\* A codec class that is referred to and not there leaves an empty list.
CubeLeg_EmptyIsNone(e, l) ==
  [EmptyIsNone(Plain(l)) EXCEPT !.role = RoleByEither(l),
     !.tls = IfTls(l, Carried(e, "on", CubeCert(e))),
     !.keepalive = IF e.pinged THEN "on" ELSE OffUnlessOn(@), !.srtp = OffUnlessOn(@)]
CubeLeg(e, l) ==
  [Plain(l) EXCEPT !.role = RoleByEither(l), !.tls = IfTls(l, Carried(e, "on", CubeCert(e))),
     !.keepalive = IF e.pinged THEN "on" ELSE OffUnlessOn(@), !.srtp = OffUnlessOn(@)]

OracleLeg_Introspects(e, l) ==
  [EmptyIsNone(NamedOnly(Plain(l))) EXCEPT !.role = RoleByPeer(l),
     !.tls = IfTls(l, [Imported(e, "?", AnnotatedCert(e)) EXCEPT !.introspectable = TRUE]),
     !.keepalive = OffUnlessOn(@), !.normalized = FALSE, !.srtp = OffUnlessOn(@), !.dtmf = "?"]
\* The codecs are those of the media profiles, the same for every leg.
OracleLeg(e, l) ==
  [EmptyIsNone(NamedOnly(Plain(l))) EXCEPT !.role = RoleByPeer(l),
     !.tls = IfTls(l, Imported(e, "?", AnnotatedCert(e))),
     !.keepalive = OffUnlessOn(@), !.normalized = FALSE, !.srtp = OffUnlessOn(@), !.dtmf = "?"]

RibbonLeg(e, l) ==
  [EmptyIsNone(Plain(l)) EXCEPT !.tls = IfTls(l, RibbonContext(e)),
     !.keepalive = OffUnlessOn(@), !.interval = -1, !.srtp = OffUnlessOn(@)]

PerimetaLeg(e, l) ==
  [Silenced(Plain(l)) EXCEPT !.role = RoleByPeer(l), !.tls = IfTls(l, PerimetaContext(e)),
     !.keepalive = IF l.keepalive = "on" THEN "on" ELSE "?", !.dtmf = "?", !.srtp = "?"]

ParseLeg(e, l) ==
  CASE e.format = "ini"    -> IniLeg(e, l)    [] e.format = "table"    -> TableLeg(e, l)
    [] e.format = "cube"   -> CubeLeg(e, l)   [] e.format = "oracle"   -> OracleLeg(e, l)
    [] e.format = "ribbon" -> RibbonLeg(e, l) [] e.format = "perimeta" -> PerimetaLeg(e, l)

(* The rest of the configuration. *)
Public(a) == a \in {"public4", "public6"}
Realm(advertised, local, symmetric) ==
  <<[role |-> "unknown", advertised |-> advertised, local |-> local, symmetric |-> symmetric]>>

\* In the table format a media realm names an address or an interface, and the
\* public address may come from a NAT rule.
TableAddress_NoNat(e) == e.address
TableAddress(e) == IF Public(e.address) THEN e.address ELSE IF Public(e.nat) THEN e.nat ELSE "?"

ParseRealms(e) ==
  CASE e.format = "ini" /\ e.realm   -> Realm(e.address, e.local, OffUnlessOn(e.symmetric))
    [] e.format = "table" /\ e.realm -> Realm(TableAddress(e), "?", "on")
    [] e.format \in {"cube", "ribbon"} /\ e.address # "?"
                          -> Realm(e.address, "?", OnUnlessOff(e.symmetric))
    [] OTHER              -> << >>

\* Only the table format has routes, a classification and access rules.
HubLegs(e) == {i \in DOMAIN e.legs : e.legs[i].hub}
Tabled(e)  == e.format = "table"
ParseRoutes(e) == IF ~Tabled(e) THEN {}
                  ELSE {<<RoleByPeer(e.legs[r[1]]), RoleByPeer(e.legs[r[2]])>> : r \in e.routes}
ParseClassified(e) == IF ~Tabled(e) \/ HubLegs(e) = {} THEN "?"
                      ELSE IF e.classified THEN "on" ELSE "off"

ParseExport(e) ==
  [fqdn |-> IF e.format = "perimeta" THEN "none" ELSE e.fqdn,
   ios |-> IF e.format = "cube" THEN e.ios ELSE "?",
   ifaces |-> [i \in DOMAIN e.legs |-> ParseLeg(e, e.legs[i])], realms |-> ParseRealms(e),
   routes |-> ParseRoutes(e), classified |-> ParseClassified(e),
   acls |-> IF Tabled(e) THEN e.acls ELSE << >>, rtpCheck |-> "?"]
==============================================================================
