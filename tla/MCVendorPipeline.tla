-------------------------- MODULE MCVendorPipeline --------------------------
(*****************************************************************************)
(* Exports for VendorPipeline: a sound one of each of the six formats,       *)
(* with at most two of the settings its format has replaced; and one file no *)
(* parser understands.                                                       *)
(*****************************************************************************)
EXTENDS VendorPipeline, TLC

CONSTANT Garbage

Required == {"g2", "g3"}
Others   == {"foreign"}

\* The values, other than the sound one, of a setting.  "?" is a missing line.
Values ==
  [transport |-> {"udp", "?"}, fqdn |-> {"none", "malformed"}, ios |-> {"?", "old"},
   keepalive |-> {"off", "?"}, interval |-> {"?", "59"}, contact |-> {"outside", "?"},
   normalized |-> {"no"}, codecs |-> {"?", "empty", "foreign", "unnamed"}, dtmf |-> {"inband", "?"},
   srtp |-> {"off", "?"}, mtls |-> {"off", "?"}, minTls |-> {"1.0", "?"},
   ciphers |-> {"foreign", "?"}, roots |-> {"some"}, profile |-> {"?"},
   pem |-> {"?", "unreadable", "noCrypto"}, ekus |-> {"none", "both"}, expiry |-> {"soon", "?"},
   chain |-> {"selfSigned", "foreign"}, named |-> {"no"}, covers |-> {"no"},
   chainComplete |-> {"off", "?"}, realm |-> {"no"}, address |-> {"private4", "?"},
   nat |-> {"?"}, symmetric |-> {"off", "?"}, routes |-> {"none", "inOnly"},
   classified |-> {"no"}, acls |-> {"none", "open"}, proxySet |-> {"?"}, ipProfile |-> {"?"}]

\* The part of a certificate or of a reference a format has lines for.
Line == [s \in DOMAIN Values |->
           CASE s \in {"ekus", "expiry", "chain"} -> "pem"
             [] s \in {"named", "covers", "chainComplete"} -> "listed"
             [] s \in {"proxySet", "ipProfile"} -> "refs"
             [] OTHER -> s]

\* What is said by a line being there or not.
Flags(format) == IF format \in {"ini", "table"} THEN {}
                 ELSE {"keepalive", "srtp"}
AllFaults == UNION {{s} \X Values[s] : s \in DOMAIN Values}
Faults == [v \in Formats |->
             {p \in AllFaults : /\ Line[p[1]] \in Carries[v] \cup {"transport"}
                                /\ p[1] \in Flags(v) => p[2] = "?"
                                /\ p[1] = "chainComplete" => v = "ini"}]
Combinations == {{}} \cup {F \in {{p, q} : p, q \in AllFaults} :
                             \A p, q \in F : p[1] = q[1] => p = q}
\* The settings whose missing line a parser turns into something known.
Defaulted(format) ==
  CASE format = "ini"    -> {"keepalive", "srtp", "mtls", "chainComplete", "symmetric"}
    [] format = "table"  -> {"keepalive", "srtp"}
    [] format = "cube"   -> {"keepalive", "srtp", "pem"}
    [] format = "oracle" -> {"keepalive", "srtp"}
    [] format = "ribbon" -> {"keepalive", "srtp", "mtls", "pem"}
    [] OTHER             -> {}
\* A transport nobody names is not TLS, an address nobody names is none, and a
\* certificate file replaces what the ini lists.
NotSilent(format) == {"transport", "address", "nat"} \cup IF format = "ini" THEN {"pem"} ELSE {}
\* An export without any of the lines whose absence a parser leaves unknown.
Sparse(format) == [format |-> format, faults |->
  {p \in Faults[format] : p[2] = "?" /\ p[1] \notin NotSilent(format) \cup Defaulted(format)}]

Sources == {f \in [format : Formats, faults : Combinations] : f.faults \subseteq Faults[f.format]}
           \cup {Sparse(v) : v \in Formats} \cup {Garbage}

Setting(f, s, sound) == LET given == {p \in f.faults : p[1] = s}
                        IN  IF given # {} THEN (CHOOSE p \in given : TRUE)[2] ELSE sound

DetailsOf(f) ==
  LET ekus == Setting(f, "ekus", "server") IN
  [ekus |-> CASE ekus = "server" -> {"server"} [] ekus = "none" -> {} [] OTHER -> {"server", "client"},
   covers |-> Setting(f, "covers", "yes") = "yes", expiry |-> Setting(f, "expiry", "far"),
   issuer |-> "program", chainComplete |-> Setting(f, "chainComplete", "on")]

\* Coders Teams does not take: one that every parser has a name for, and none.
CodersOf(c) == [given |-> c # "?",
                list |-> CASE c \in {"?", "empty"} -> {} [] c = "foreign" -> {"OPUS", "iLBC"}
                           [] c = "unnamed" -> {"iLBC"} [] OTHER -> {"PCMU"}]
\* The tls port of the SIP interface, and no proxy that says otherwise.
LegsOf(f) ==
  LET refs  == {r \in {"proxySet", "profile"} :
                  Setting(f, IF r = "profile" THEN "ipProfile" ELSE r, "there") = "there"}
      teams == [name |-> 1, label |-> "teams", hub |-> TRUE, bound |-> TRUE, refs |-> refs,
                transports |-> <<"?", Setting(f, "transport", "tls")>>,
                keepalive |-> Setting(f, "keepalive", "on"),
                interval |-> CASE Setting(f, "interval", "60") = "?" -> -1
                               [] Setting(f, "interval", "60") = "59" -> 59 [] OTHER -> 60,
                contact |-> Setting(f, "contact", "under"),
                normalized |-> Setting(f, "normalized", "yes") = "yes",
                coders |-> CodersOf(Setting(f, "codecs", "common")),
                dtmf |-> Setting(f, "dtmf", "rfc2833"), srtp |-> Setting(f, "srtp", "on")]
      carrier == [teams EXCEPT !.name = 2, !.label = "carrier", !.hub = FALSE, !.bound = FALSE,
                    !.transports = <<"udp", "?">>, !.contact = "?", !.srtp = "off",
                    !.keepalive = "on", !.dtmf = "rfc2833", !.normalized = FALSE,
                    !.coders = IF f.format = "oracle" THEN @ ELSE CodersOf("common")]
  IN  <<carrier, teams>>

SourceOf(f) ==
  IF f = Garbage THEN Unparsable
  ELSE [format |-> f.format, fqdn |-> Setting(f, "fqdn", "name"), ios |-> Setting(f, "ios", "fixed"),
        named |-> Setting(f, "named", "yes") = "yes", listed |-> DetailsOf(f), leaf |-> DetailsOf(f),
        pem |-> CASE Setting(f, "pem", "read") = "?" -> "none"
                  [] OTHER -> Setting(f, "pem", "read"),
        chain |-> Setting(f, "chain", "g2"),
        roots |-> IF Setting(f, "roots", "all") = "all" THEN Required ELSE {"g2"},
        profile |-> Setting(f, "profile", "there") = "there", mtls |-> Setting(f, "mtls", "on"),
        minTls |-> Setting(f, "minTls", "1.2"), ciphers |-> Setting(f, "ciphers", "shared"),
        pinged |-> FALSE, legs |-> LegsOf(f), realm |-> Setting(f, "realm", "yes") = "yes",
        address |-> Setting(f, "address", IF f.format = "table" THEN "name" ELSE "public4"),
        local |-> "private4", nat |-> Setting(f, "nat", "public4"),
        symmetric |-> Setting(f, "symmetric", "on"),
        routes |-> CASE Setting(f, "routes", "both") = "none" -> {}
                     [] Setting(f, "routes", "both") = "inOnly" -> {<<1, 2>>}
                     [] OTHER -> {<<1, 2>>, <<2, 1>>},
        classified |-> Setting(f, "classified", "yes") = "yes",
        acls |-> LET Rule(ver, action, net) ==
                       [plane |-> "both", ver |-> ver, action |-> action, net |-> net]
                     permits == <<Rule(4, "permit", "tight"), Rule(6, "permit", "tight")>>
                     denies  == <<Rule(4, "deny", "any"), Rule(6, "deny", "any")>>
                 IN  CASE Setting(f, "acls", "sound") = "none" -> << >>
                       [] Setting(f, "acls", "sound") = "open" -> permits
                       [] OTHER -> permits \o denies]

ParseSource(f) == IF f = Garbage THEN Unparsable ELSE DetectAndParse(SourceOf(f))

\* Elsewhere than in the ini a certificate must at least be named.
Unknown(f) == {p \in f.faults : /\ p[2] = "?" /\ p[1] \notin NotSilent(f.format)
                                /\ p[1] = "pem" => <<"named", "no">> \notin f.faults}
Kept(f)    == {p \in Unknown(f) : p[1] \notin Defaulted(f.format)}

\* One missing line is filled in, or all of them.
Filled(f, settings) == {g \in {[f EXCEPT !.faults = @ \ S] : S \in {{p} : p \in settings} \cup {settings}} :
                          g \in Sources}
NoEdits(f)      == {}
\* One line is corrected, or spoiled where the file was sound.
CorrectedOf(f)  == IF f = Garbage THEN {} ELSE {[f EXCEPT !.faults = @ \ {p}] : p \in {q \in f.faults : q[2] # "?"}}
SpoiltOf(f)     == IF f = Garbage \/ f.faults # {} THEN {}
                   ELSE {[f EXCEPT !.faults = {p}] : p \in Faults[f.format]}
KeptOf(f)       == IF f = Garbage THEN {} ELSE Filled(f, Kept(f))
\* Every line an AudioCodes ini can lack, the defaulted ones too.
IniUnknownOf(f) == IF f = Garbage THEN {} ELSE IF f.format = "ini" THEN Filled(f, Unknown(f)) ELSE {}
----------------------------------------------------------------------------
\* A file without any fault but lines that are left out, where the parser leaves
\* it at that, has nothing wrong in it.
ASSUME SparseIsSound == \A f \in Sources \ {Garbage} : f.faults = Kept(f) => Sound(SourceOf(f))
=============================================================================
