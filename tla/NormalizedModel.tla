--------------------------- MODULE NormalizedModel ---------------------------
(***************************************************************************)
(* The normalized configuration (models.py): what every parser returns and *)
(* every validator reads.  A setting a source may not carry has the value  *)
(* "?" (Python's None).  A name, address or version is a member of a small *)
(* set that keeps apart what the validators keep apart.                    *)
(***************************************************************************)
EXTENDS Integers, Sequences, FiniteSets

CONSTANTS RequiredRoots, \* required_root_ca_ids of the rule bundle
          OtherRoots,    \* root CAs outside that set
          NoCert, NoContext

Tri   == {"on", "off", "?"}
Roles == {"teams", "carrier", "internal", "unknown"}

\* A leaf certificate: its EKUs, whether a name in it covers the SBC FQDN, and
\* when it expires.  pem tells what became of the file it refers to, if any.
\* chain is what the file's chain leads to: a fault or the root it ends at.
ChainFaults == {"selfSigned", "badSignature", "noRoot"}
Certificate == [ekus : SUBSET {"server", "client"}, covers : BOOLEAN,
                expiry : {"?", "past", "soon", "far"},
                issuer : {"?", "program", "other"}, chainComplete : Tri,
                pem : {"none", "unreadable", "noCrypto", "read"},
                chain : ChainFaults \cup RequiredRoots \cup OtherRoots]

\* ciphers: how the offered suites relate to Microsoft's list.
TlsContext == [mtls : Tri, cert : Certificate \cup {NoCert},
               roots : SUBSET (RequiredRoots \cup OtherRoots), introspectable : BOOLEAN,
               minTls : {"?", "1.0", "1.1", "1.2", "1.3"},
               ciphers : {"?", "empty", "foreign", "shared"}]

\* offered_codecs is None unless carried; interval is in seconds, -1 for None.
TeamsCodecs == {"PCMU", "PCMA", "G722", "SILK", "G729"}
Wideband    == {"G722", "G722.2", "AMR-WB", "SILK", "OPUS"}
Codecs      == TeamsCodecs \cup Wideband \cup {"iLBC"}
SipInterface == [name : Nat, role : Roles, tls : TlsContext \cup {NoContext},
                 transport : {"?", "tls", "tcp", "udp"}, keepalive : Tri,
                 interval : Nat \cup {-1}, contact : {"?", "under", "outside"},
                 normalized : BOOLEAN, carried : BOOLEAN, codecs : SUBSET Codecs,
                 dtmf : {"?", "rfc2833", "inband", "info"}, srtp : Tri]

Addresses  == {"?", "name", "private4", "public4", "public6"}
MediaRealm == [role : Roles, advertised : Addresses, local : Addresses, symmetric : Tri]

\* net is the CIDR of a rule: none at all, everything, a public /16, a public
\* /28 inside it, or a private range.
Nets == {"none", "any", "wide", "tight", "lan"}
AccessControlEntry == [plane : {"signaling", "media", "both"}, ver : {4, 6},
                       action : {"permit", "deny"}, net : Nets]

NormalizedConfig == [fqdn : {"none", "name", "malformed", "ip"},
                     ios : {"?", "fixed", "old", "oldIsr4k"},
                     ifaces : Seq(SipInterface), realms : Seq(MediaRealm),
                     routes : SUBSET (Roles \X Roles), classified : Tri,
                     acls : Seq(AccessControlEntry), rtpCheck : Tri]

\* No certificate and no context are records of neither.
ASSUME NoneAssumption == NoCert \notin Certificate /\ NoContext \notin TlsContext

\* teams_interface and carrier_interface: the first one of the role.
First(I) == CHOOSE i \in I : \A j \in I : i <= j

IsTeams(x)   == x.role = "teams"
IsCarrier(x) == x.role \in {"carrier", "internal"}

HasTeams(c)   == \E i \in DOMAIN c.ifaces : IsTeams(c.ifaces[i])
HasCarrier(c) == \E i \in DOMAIN c.ifaces : IsCarrier(c.ifaces[i])
Teams(c)      == c.ifaces[First({i \in DOMAIN c.ifaces : IsTeams(c.ifaces[i])})]
Carrier(c)    == c.ifaces[First({i \in DOMAIN c.ifaces : IsCarrier(c.ifaces[i])})]

\* The interfaces that offer codecs.
Legs(c)   == {i \in DOMAIN c.ifaces : c.ifaces[i].carried /\ c.ifaces[i].codecs # {}}
Common(c) == {k \in Codecs : \A i \in Legs(c) : k \in c.ifaces[i].codecs}
==============================================================================
