------------------------ MODULE MCValidationPipeline ------------------------
(***************************************************************************)
(* Files for ValidationPipeline: a sound configuration with at most two of *)
(* its settings replaced, from four kinds of source.  "full" carries       *)
(* everything; "ini" names its trust store and its certificate, whose PEM  *)
(* is supplied, without carrying them; "legacy" is full with advisories    *)
(* that one more turns into a REVIEW.  And one file no parser understands. *)
(***************************************************************************)
EXTENDS ValidationPipeline, TLC

CONSTANT Garbage

Required == {"g2", "g3"}
Others   == {"foreign"}

\* The values, other than its sound one, that a setting is given.
Values ==
  [fqdn |-> {"none", "malformed", "ip"}, ios |-> {"old", "oldIsr4k"},
   ifaces |-> {"none", "noTeams", "noCarrier", "sameName"}, tls |-> {"none"},
   transport |-> {"udp", "?"}, keepalive |-> {"off", "?"}, carrierKeepalive |-> {"off", "?"},
   interval |-> {"?", "59", "180", "181"}, contact |-> {"outside", "?"}, normalized |-> {"no"},
   codecs |-> {"?", "empty", "foreign", "wide"}, carrierCodecs |-> {"?", "empty", "foreign"},
   dtmf |-> {"inband", "info", "?"}, carrierDtmf |-> {"info", "?"}, srtp |-> {"off", "?"},
   mtls |-> {"off", "?"}, roots |-> {"some", "none"}, minTls |-> {"1.0", "1.1", "1.3", "?"},
   ciphers |-> {"?", "empty", "foreign"}, cert |-> {"missing", "unreadable", "noCrypto", "read"},
   ekus |-> {"none", "client", "both", "server"}, covers |-> {"no"}, expiry |-> {"past", "soon", "?"},
   issuer |-> {"other", "?"}, chainComplete |-> {"off", "?"}, chain |-> ChainFaults \cup Others,
   realms |-> {"none", "internal", "public6"}, advertised |-> {"?", "private4"},
   local |-> {"?", "name", "public4"}, symmetric |-> {"off", "?"},
   routes |-> {"none", "inOnly", "outOnly"}, classified |-> {"off", "?"},
   acls |-> {"none", "open", "broad", "signaling", "v4", "deadDeny", "deadPermit"},
   rtpCheck |-> {"off", "?"}]

Faults == UNION {{s} \X Values[s] : s \in DOMAIN Values}
Standing ==
  LET legacy == {<<"keepalive", "off">>, <<"normalized", "no">>, <<"ekus", "both">>} IN
  [full |-> {}, ini |-> {<<"roots", "none">>, <<"cert", "read">>, <<"acls", "none">>},
   legacy |-> legacy,
   wall |-> legacy \cup {<<"interval", "59">>, <<"fqdn", "malformed">>, <<"ifaces", "sameName">>,
                         <<"dtmf", "inband">>, <<"rtpCheck", "off">>, <<"acls", "broad">>,
                         <<"issuer", "other">>}]
Combinations == {{}} \cup {F \in {{p, q} : p, q \in Faults} :
                             \A p, q \in F : p[1] = q[1] => p = q}
Sources == [base : DOMAIN Standing, faults : Combinations] \cup {Garbage}

Setting(f, s, sound) ==
  LET given    == {p \in f.faults : p[1] = s}
      standing == {p \in Standing[f.base] : p[1] = s}
  IN  IF given # {} THEN (CHOOSE p \in given : TRUE)[2]
      ELSE IF standing # {} THEN (CHOOSE p \in standing : TRUE)[2] ELSE sound

Number(n) == CASE n = "?" -> -1 [] n = "59" -> 59 [] n = "60" -> 60 [] n = "180" -> 180
               [] n = "181" -> 181
Offer(o) == CASE o \in {"?", "empty"} -> {} [] o = "foreign" -> {"iLBC"}
              [] o = "narrow" -> {"PCMU"} [] o = "wide" -> {"PCMU", "SILK"}
Rule(plane, ver, action, net) == [plane |-> plane, ver |-> ver, action |-> action, net |-> net]
DenyRest == <<Rule("both", 4, "deny", "any"), Rule("both", 6, "deny", "any")>>
Tight    == Rule("both", 4, "permit", "tight")
Tight6   == Rule("both", 6, "permit", "tight")
AccessList(a) ==
  CASE a = "none"       -> << >>
    [] a = "sound"      -> <<Tight, Tight6>> \o DenyRest
    [] a = "open"       -> <<Tight, Tight6>>
    [] a = "broad"      -> <<Rule("both", 4, "permit", "wide"), Tight6>> \o DenyRest
    [] a = "signaling"  -> <<Rule("signaling", 4, "permit", "tight")>> \o DenyRest
    [] a = "v4"         -> <<Tight, DenyRest[1]>>
    [] a = "deadDeny"   -> <<Rule("both", 4, "permit", "wide"), Tight6,
                             Rule("media", 4, "deny", "tight")>> \o DenyRest
    [] a = "deadPermit" -> <<Rule("both", 4, "deny", "wide"), Tight, Tight6>> \o DenyRest

\* The part of the configuration each kind of source carries.
CertificateOf(f) ==
  LET ini == f.base = "ini"
      pem == Setting(f, "cert", "none")
      \* No details at all: nothing was declared and the file was not read.
      blank == ini /\ pem # "read"
      Detail(s, sound, none) == IF blank THEN none ELSE Setting(f, s, sound)
      ekus == Detail("ekus", "server", "none")
  IN  IF pem = "missing" THEN NoCert
      ELSE [ekus |-> CASE ekus = "none" -> {} [] ekus = "client" -> {"client"}
                       [] ekus = "server" -> {"server"} [] ekus = "both" -> {"server", "client"},
            covers |-> Detail("covers", "yes", "no") = "yes",
            expiry |-> Detail("expiry", "far", "?"), issuer |-> Detail("issuer", "program", "?"),
            chainComplete |-> Detail("chainComplete", "on", "?"),
            pem |-> pem, chain |-> Setting(f, "chain", "g2")]

TlsOf(f) ==
  LET ini == f.base = "ini" IN
  IF Setting(f, "tls", "bound") = "none" \/ (ini /\ Setting(f, "transport", "tls") # "tls")
  THEN NoContext
  ELSE [mtls |-> Setting(f, "mtls", "on"), cert |-> CertificateOf(f), introspectable |-> ~ini,
        roots |-> CASE Setting(f, "roots", "all") = "none" -> {}
                    [] Setting(f, "roots", "all") = "some" -> {"g2"}
                    [] OTHER -> Required,
        minTls |-> Setting(f, "minTls", "1.2"), ciphers |-> Setting(f, "ciphers", "shared")]

InterfacesOf(f) ==
  LET codecs  == Setting(f, "codecs", "narrow")
      other   == Setting(f, "carrierCodecs", "narrow")
      kind    == Setting(f, "ifaces", "both")
      teams   == [name |-> 1, role |-> IF kind = "noTeams" THEN "unknown" ELSE "teams",
                  tls |-> TlsOf(f), transport |-> Setting(f, "transport", "tls"),
                  keepalive |-> Setting(f, "keepalive", "on"),
                  interval |-> Number(Setting(f, "interval", "60")),
                  contact |-> Setting(f, "contact", "under"),
                  normalized |-> Setting(f, "normalized", "yes") = "yes",
                  carried |-> codecs # "?", codecs |-> Offer(codecs),
                  dtmf |-> Setting(f, "dtmf", "rfc2833"), srtp |-> Setting(f, "srtp", "on")]
      carrier == [teams EXCEPT !.name = IF kind = "sameName" THEN 1 ELSE 2, !.role = "carrier",
                  !.tls = NoContext, !.transport = "udp", !.normalized = FALSE,
                  !.keepalive = Setting(f, "carrierKeepalive", "on"), !.contact = "?",
                  !.carried = other # "?", !.codecs = Offer(other),
                  !.dtmf = Setting(f, "carrierDtmf", "rfc2833"), !.srtp = "?"]
  IN  IF kind = "none" THEN << >> ELSE IF kind = "noCarrier" THEN <<teams>>
      ELSE <<carrier, teams>>

RealmsOf(f) ==
  LET kind  == Setting(f, "realms", "one")
      realm == [role |-> IF kind = "internal" THEN "internal" ELSE "unknown",
                advertised |-> Setting(f, "advertised", "public4"),
                local |-> Setting(f, "local", "private4"),
                symmetric |-> Setting(f, "symmetric", "on")]
  IN  IF kind = "none" THEN << >>
      ELSE IF kind = "public6" THEN <<realm, [realm EXCEPT !.advertised = "public6"]>>
      ELSE <<realm>>

ParseSource(f) ==
  IF f = Garbage THEN Unparsable
  ELSE [fqdn |-> Setting(f, "fqdn", "name"), ios |-> Setting(f, "ios", "?"),
        ifaces |-> InterfacesOf(f), realms |-> RealmsOf(f),
        routes |-> CASE Setting(f, "routes", "both") = "none" -> {}
                     [] Setting(f, "routes", "both") = "inOnly" -> {<<"carrier", "teams">>}
                     [] Setting(f, "routes", "both") = "outOnly" -> {<<"teams", "carrier">>}
                     [] OTHER -> {<<"teams", "carrier">>, <<"carrier", "teams">>},
        classified |-> Setting(f, "classified", "on"),
        acls |-> AccessList(Setting(f, "acls", "sound")),
        rtpCheck |-> Setting(f, "rtpCheck", "on")]

\* Access lists of up to three rules.
Rules    == [plane : {"both", "media"}, ver : {4}, action : {"permit", "deny"},
             net : {"any", "wide", "tight"}]
Lists    == UNION {[1..n -> Rules] : n \in 0..3}
ListFile == [base : {"rules"}, faults : {{}}, list : Lists]

AllSources == Sources \cup ListFile
IsList(f)  == f # Garbage /\ f.base = "rules"
Parsed ==
  [f \in AllSources |->
     IF IsList(f) THEN [ParseSource([base |-> "full", faults |-> {}]) EXCEPT !.acls = f.list]
     ELSE ParseSource(f)]
ParseAny(f) == Parsed[f]

\* A repair makes a faulty setting sound, a completion one that was not
\* carried, and a breakage replaces a sound one.  What hides other settings
\* from the validators but is no fault is never repaired (a realm of the LAN
\* side, a local address, an address that is public itself, Teams interfaces
\* only, codecs the carrier lacks, a PEM, a store imported separately), nor what
\* is unsound in every file of the kind; and of two legs without a codec in
\* common the one to Teams is repaired first.
Sound(f) ==
  {<<"realms", "internal">>, <<"ifaces", "noCarrier">>, <<"codecs", "wide">>, <<"cert", "read">>}
  \cup ({"local"} \X Values.local)
  \cup (IF Setting(f, "local", "private4") = "private4" THEN {} ELSE {<<"advertised", "?">>})
  \cup (IF f.base = "ini" THEN {"roots"} \X Values.roots ELSE {})
  \cup (IF Setting(f, "codecs", "narrow") = "foreign" THEN {"carrierCodecs"} \X Values.carrierCodecs ELSE {})
\* DTMF and transport have no "not carried" that the validators leave alone.
Silent == {"keepalive", "carrierKeepalive", "interval", "contact", "codecs", "carrierCodecs",
           "srtp", "mtls", "minTls", "ciphers", "expiry", "issuer", "chainComplete",
           "symmetric", "classified", "rtpCheck"}
Unknown(f) == {p \in f.faults : p[1] \in Silent /\ p[2] = "?"}
Faulty(f)  == {p \in f.faults \ (Sound(f) \cup Unknown(f)) :
                 f.base = "ini" \/ \A q \in Standing[f.base] : q[1] # p[1]}
Without(f, settings) == {[f EXCEPT !.faults = @ \ {p}] : p \in settings}
RepairsOf(f)     == IF f = Garbage THEN {} ELSE Without(f, Faulty(f))
CompletionsOf(f) == IF f = Garbage THEN {} ELSE Without(f, Unknown(f))
BreakagesOf(f)   == IF f = Garbage \/ f.faults = {} THEN {}
                    ELSE {g \in {[f EXCEPT !.faults = @ \cup {p}] : p \in Faults} : g \in Sources}
=============================================================================
