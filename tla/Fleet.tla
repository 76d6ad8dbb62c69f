-------------------------------- MODULE Fleet --------------------------------
(***************************************************************************)
(* What is said of several SBCs at once: the fleet command (fleet.py) with *)
(* its view of tenants that share a certificate, the executive report      *)
(* (report/exec.py) and the compliance report (report/compliance.py).  All *)
(* three sort findings by prefixes of their check ids, each with a table   *)
(* of its own.                                                             *)
(*                                                                         *)
(* A definition named X_Y is the definition X with a bug Y.                *)
(***************************************************************************)
EXTENDS Validators, SequencesExt

CONSTANTS Subject(_), \* subject_cn of a certificate
          Unnamed     \* ... that has none

\* What the tables below come to for the findings a call dies of: closed facts
\* about strings, which TLC evaluates.
ASSUME PrefixAssumption ==
  /\ \A p \in {"C.CA.", "C.CA"} : IsPrefix(p, "C.CA.ROOT_MISSING")
  /\ \A p \in {"C.TLS.", "C.TLS"} : \A id \in {"C.TLS.NO_CONTEXT", "C.TLS.MTLS_DISABLED",
       "C.TLS.CIPHER_NOT_ALLOWED"} : IsPrefix(p, id)
  /\ \A p \in {"C.CERT.", "C.CERT"} : \A id \in {"C.CERT.MISSING", "C.CERT.FQDN_MISMATCH",
       "C.CERT.SELF_SIGNED", "C.CERT.CHAIN_INVALID", "C.CERT.UNTRUSTED_ANCHOR", "C.CERT.EXPIRY",
       "C.CERT.EKU_NO_SERVERAUTH"} : IsPrefix(p, id)
  /\ IsPrefix("C.SRTP", "C.SRTP.DISABLED")
  /\ \A id \in {"D.NAT.PRIVATE_ADVERTISED", "D.NAT.NO_PUBLIC_IP"} : IsPrefix("D.", id)

StartsWith(f, prefixes) == \E p \in prefixes : IsPrefix(p, f.id)
Severe(f)               == f.sev \in {"HIGH", "CRITICAL"}

\* _CA_PREFIXES of fleet.py: what blocks the 2026 CA migration.
CaPrefixes_NoCert == {"C.CA.", "C.TLS.", "C.SRTP"}
CaPrefixes_NoTls == {"C.CA.", "C.CERT.", "C.SRTP"}
CaPrefixes       == {"C.CA.", "C.CERT.", "C.TLS.", "C.SRTP"}
Blockers(fs)     == {f \in fs : StartsWith(f, CaPrefixes) /\ Severe(f)}
CaReady(fs)      == Blockers(fs) = {}

\* _CA_PREFIXES and _not_ready of report/exec.py, over recorded findings.
ExecPrefixes == {"C.CA", "C.CERT", "C.TLS", "C.SRTP"}
NotReady(fs) == \E f \in fs : StartsWith(f, ExecPrefixes) /\ Severe(f)

\* The certificate a tenant presents is known by its name only (cert_cn).
Presented(c) == IF HasTeams(c) /\ Teams(c).tls # NoContext THEN Teams(c).tls.cert ELSE NoCert
CertName(c)  == IF Presented(c) # NoCert THEN Subject(Presented(c)) ELSE Unnamed

\* Tenants that share a certificate with one that is not ready: at_cascade_risk.
Sharing(rows, f)    == {g \in DOMAIN rows : rows[g].cn = rows[f].cn}
AtCascadeRisk(rows) == {f \in DOMAIN rows : /\ rows[f].cn # Unnamed /\ Sharing(rows, f) # {f}
                                            /\ \E g \in Sharing(rows, f) : ~rows[g].ready}

\* The control families of each framework: the prefixes that evidence them.
Crypto   == {"C.CA.", "C.CERT.", "C.TLS.", "C.SRTP"}
Families_FinraPlain ==
  [mifid2 |-> {Crypto, {"B.SIP."}, {"D."}, {"S."}}, finra |-> {{"C.CERT."}, {"S."}},
   cjis |-> {Crypto, {"D.", "F."}, {"S."}}, hipaa |-> {Crypto, {"D."}, {"S."}}]
Families ==
  [mifid2 |-> {Crypto, {"B.SIP."}, {"D."}, {"S."}}, finra |-> {Crypto, {"S."}},
   cjis |-> {Crypto, {"D.", "F."}, {"S."}}, hipaa |-> {Crypto, {"D."}, {"S."}}]
OpenFindings(fs, framework) ==
  {f \in fs : \E family \in Families[framework] : StartsWith(f, family)}
==============================================================================
